---- MODULE Spec2Model ----
(***************************************************************************)
(* Block-synchronisation pipeline of the Ethereum indexer: the sync pass   *)
(* of BlockService (services/block_service.rs), the repositories it writes *)
(* through, the transfer extractor (models/domain/transfer.rs), and the    *)
(* supervisor loop (startup/startup.rs), run against a network whose head  *)
(* advances and whose chain may reorganise.                                *)
(***************************************************************************)
EXTENDS Integers, Sequences, FiniteSets, TLC

\* ------------------------------------------------------------------ bounds
MaxHead == 2        \* highest height the network's head reaches
MaxReorgs == 1      \* number of chain reorganisations of the network
MaxPicks == 4       \* number of picks from the endpoint pool
MaxEvents == 3      \* number of file system events in the config directory
MaxCallers == 3     \* number of concurrent calls of TxService::execute

\* ------------------------------------------------------- Option / Result
None == <<>>
Some(x) == <<x>>
IsSome(o) == o # <<>>
Unwrap(o) == o[1]

Ok(v) == [ok |-> TRUE, val |-> v]
Err(e) == [ok |-> FALSE, val |-> e]

\* ------------------------------------------------------------ U256 values
\* A U256 is its sixteen 16-bit digits, least significant first (the four
\* u64 limbs of ethers' U256, each cut in four).
U256Digits == 16
U64Digits == 4
U128Digits == 8
I64SignDigit == 32768

U256FromNat(n) == [i \in 1..U256Digits |-> IF i = 1 THEN n ELSE 0]
U256Zero == U256FromNat(0)
\* i64::MAX + 1 = 2^63, and u128::MAX + 1 = 2^128
U256TwoPow63 == [i \in 1..U256Digits |-> IF i = U64Digits THEN I64SignDigit ELSE 0]
U256TwoPow128 == [i \in 1..U256Digits |-> IF i = U128Digits + 1 THEN 1 ELSE 0]

U256IsZero(v) == \A i \in 1..U256Digits : v[i] = 0
FitsU128(v) == \A i \in (U128Digits + 1)..U256Digits : v[i] = 0
FitsI64(v) ==
    /\ \A i \in (U64Digits + 1)..U256Digits : v[i] = 0
    /\ v[U64Digits] < I64SignDigit

\* utils/convert.rs u256_to_i64
u256_to_i64(u256_val) ==
    IF ~FitsU128(u256_val) THEN Err("ConversionError")
    ELSE IF ~FitsI64(u256_val) THEN Err("ConversionError")
    ELSE Ok(u256_val)

\* utils/convert.rs opt_u256_to_i64_loose
opt_u256_to_i64_loose(opt_u256) ==
    LET u256_val == IF IsSome(opt_u256) THEN Unwrap(opt_u256) ELSE U256Zero
    IN  IF ~FitsI64(u256_val) THEN Err("ConversionError") ELSE Ok(u256_val)

option_u64_to_i64_doubled(opt_u64) ==
    IF ~IsSome(opt_u64) THEN Err("InvalidNumber") ELSE Ok(Unwrap(opt_u64) + Unwrap(opt_u64))

\* utils/convert.rs option_u64_to_i64 (heights of the model are far below 2^63)
option_u64_to_i64(opt_u64) ==
    IF ~IsSome(opt_u64) THEN Err("InvalidNumber") ELSE Ok(Unwrap(opt_u64))

\* Vec::len() is a usize: its four 16-bit digits, least significant first.
\* i32::MAX + 1 = 2^31 has the top bit of the second digit set.
I32SignDigit == I64SignDigit
VecLen(n) == [i \in 1..U64Digits |-> IF i = 1 THEN n ELSE 0]
VecLenTwoPow31 == [i \in 1..U64Digits |-> IF i = 2 THEN I32SignDigit ELSE 0]

usize_to_i32_wrapping(len) == Ok(len[1])

\* services/block_service.rs:162-166 transactions.len().try_into() with the
\* error mapped to InvalidNumber
usize_to_i32(len) ==
    IF (\E i \in 3..U64Digits : len[i] # 0) \/ len[2] >= I32SignDigit
    THEN Err("InvalidNumber")
    ELSE Ok(len[1] + 65536 * len[2])

\* utils/format.rs u256_to_bigdecimal: the decimal string of the value, parsed
\* back with arbitrary precision: an integer with scale 0
u256_to_bigdecimal(value) == [int |-> value, scale |-> 0]

\* ------------------------------------------------------- hashes, strings
\* "{:#x}" of a hash or an address is "0x" followed by its hex digits; the
\* empty string is the empty sequence.
EmptyString == <<>>
HexString(x) == <<"0x", x>>

\* utils/convert.rs h256_opt_to_string
h256_opt_to_string(data) == IF IsSome(data) THEN HexString(Unwrap(data)) ELSE EmptyString

\* utils/convert.rs h256_to_string
h256_to_string(data) == HexString(data)

\* str::parse::<H256>: the hex digits with or without the 0x prefix; the
\* empty string is an error
ParseH256(s) == IF s = EmptyString THEN Err("Conversion") ELSE Ok(s[2])

\* models/domain/block.rs TryFrom<BlockRow> for BlockQuery
BlockQueryTryFrom(db) ==
    LET h == ParseH256(db.block_hash)
    IN  IF ~h.ok THEN Err("Conversion")
        ELSE Ok([block_number |-> db.block_number, block_hash |-> h.val])

\* ------------------------------------------------- filter snapshots
\* config/filter_config.rs FilterConfig: the watched contracts and users.
\* The address file first watches u1, and u2 after an edit.
FilterSnapshots ==
    << [contracts |-> {"k1"}, addresses |-> {"u1"}],
       [contracts |-> {"k1"}, addresses |-> {"u2"}] >>

\* ------------------------------------------------------ the network
\* A block hash is the height with the fork the block belongs to; a reorg at
\* height k starts a new fork from k upwards, so a hash fixes its ancestors.
ZeroHash == <<0 - 1, 0>>
Heights == 0..MaxHead
ERC20_TRANSFER_TOPIC == "ddf252ad"

Log(addr, from, to, idx) ==
    [address |-> addr, topics |-> <<ERC20_TRANSFER_TOPIC, from, to>>,
     data |-> [len |-> 32, value |-> U256FromNat(5)], log_index |-> idx]

Tx(from, to, input, value, status, logs) ==
    [from |-> from, to |-> to, input |-> input, value |-> U256FromNat(value),
     gas |-> U256FromNat(21000), max_fee_per_gas |-> None,
     receipt |-> [status |-> status, gas_used |-> Some(U256FromNat(21000)), logs |-> logs]]

\* The transactions a block may carry (input: the call data, by its shape).
NativeOk      == Tx("u1", Some("x"), "empty", 1, Some(1), <<>>)
NativeToU2    == Tx("x", Some("u2"), "empty", 1, Some(1), <<>>)
NativeFailed  == Tx("u1", Some("x"), "empty", 1, Some(0), <<>>)
NativeNoStat  == Tx("u1", Some("x"), "empty", 1, None, <<>>)
NativeZero    == Tx("u1", Some("x"), "empty", 0, Some(1), <<>>)
Erc20Ok       == Tx("u1", Some("k1"), "transfer", 0, Some(1),
                    <<Log("k1", "u1", "x", Some(U256FromNat(1)))>>)
Erc20Unwatched == Tx("u1", Some("k2"), "transfer", 0, Some(1),
                    <<Log("k2", "u1", "x", Some(U256FromNat(2)))>>)
NativeWithLog == Tx("u1", Some("k1"), "empty", 1, Some(1),
                    <<Log("k1", "u1", "x", Some(U256FromNat(0)))>>)
Creation      == Tx("u1", None, "other", 0, Some(1), <<>>)

BlockBodies ==
    { <<>>, <<NativeFailed, Erc20Ok>>, <<NativeNoStat, NativeWithLog>> }

\* The numeric header fields a node may report: ordinary, or out of range.
BlockNumerics ==
    { [gas_used |-> U256FromNat(21000), base_fee_per_gas |-> Some(U256FromNat(7)),
       timestamp |-> U256FromNat(1700)],
      [gas_used |-> U256TwoPow63, base_fee_per_gas |-> None,
       timestamp |-> U256FromNat(1700)] }

\* eth_getBlockByNumber(height, true): the block of the current chain at that
\* height; tx hashes are the height with the position in the block.
\* transactions_len is the len() of the transactions vector.
NetBlock(height, fork, hashPresent, numerics, body) ==
    [number |-> Some(height),
     hash |-> IF hashPresent THEN Some(<<height, fork[height]>>) ELSE None,
     parent_hash |-> IF height = 0 THEN ZeroHash ELSE <<height - 1, fork[height - 1]>>,
     gas_used |-> numerics.gas_used,
     base_fee_per_gas |-> numerics.base_fee_per_gas,
     timestamp |-> numerics.timestamp,
     transactions_len |-> VecLen(Len(body)),
     transactions |-> [i \in 1..Len(body) |->
        [hash |-> <<height, i>>, from |-> body[i].from, to |-> body[i].to,
         input |-> body[i].input, value |-> body[i].value, gas |-> body[i].gas,
         max_fee_per_gas |-> body[i].max_fee_per_gas]],
     receipts |-> [i \in 1..Len(body) |-> body[i].receipt]]

\* ---------------------------------------------------- transfer extractor
\* utils/check.rs is_target_transaction
is_target_transaction(tx) ==
    IF ~IsSome(tx.to) THEN FALSE
    ELSE IF tx.input = "empty" THEN ~U256IsZero(tx.value)
    ELSE IF tx.input = "transfer" THEN U256IsZero(tx.value)
    ELSE FALSE

\* receipt.status.unwrap_or_default().as_u64() as i16
StatusOf(receipt) == IF IsSome(receipt.status) THEN Unwrap(receipt.status) ELSE 0

MaxFeeOf(tx) ==
    IF IsSome(tx.max_fee_per_gas) THEN u256_to_bigdecimal(Unwrap(tx.max_fee_per_gas))
    ELSE u256_to_bigdecimal(U256Zero)

\* models/domain/transfer.rs Transfer::from_eth_tx
from_eth_tx(tx, receipt, block_number, timestamp, log_index) ==
    [block_number |-> block_number,
     tx_hash |-> HexString(tx.hash),
     from_address |-> HexString(tx.from),
     to_address |-> IF IsSome(tx.to) THEN HexString(Unwrap(tx.to)) ELSE EmptyString,
     amount |-> u256_to_bigdecimal(tx.value),
     contract_address |-> None,
     timestamp |-> timestamp,
     gas |-> u256_to_bigdecimal(tx.gas),
     max_fee_per_gas |-> MaxFeeOf(tx),
     status |-> StatusOf(receipt),
     log_index |-> log_index]

\* models/domain/transfer.rs Transfer::from_erc20_log
from_erc20_log(tx, log, receipt, block_number, tx_hash, timestamp, amount, log_index) ==
    [block_number |-> block_number,
     tx_hash |-> tx_hash,
     from_address |-> HexString(log.topics[2]),
     to_address |-> HexString(log.topics[3]),
     amount |-> u256_to_bigdecimal(amount),
     contract_address |-> Some(HexString(log.address)),
     timestamp |-> timestamp,
     gas |-> u256_to_bigdecimal(IF IsSome(receipt.gas_used) THEN Unwrap(receipt.gas_used) ELSE U256Zero),
     max_fee_per_gas |-> MaxFeeOf(tx),
     status |-> StatusOf(receipt),
     log_index |-> log_index]

IsWatchedErc20LogAnyUser(log, filter) ==
    /\ Len(log.topics) = 3
    /\ log.topics[1] = ERC20_TRANSFER_TOPIC
    /\ log.data.len = 32
    /\ log.address \in filter.contracts

IsWatchedErc20LogAnyContract(log, filter) ==
    /\ Len(log.topics) = 3
    /\ log.topics[1] = ERC20_TRANSFER_TOPIC
    /\ log.data.len = 32
    /\ (log.topics[2] \in filter.addresses \/ log.topics[3] \in filter.addresses)

\* the closure of the log filter in Transfer::process_transaction
IsWatchedErc20Log(log, filter) ==
    LET is_erc20 == /\ Len(log.topics) = 3
                    /\ log.topics[1] = ERC20_TRANSFER_TOPIC
                    /\ log.data.len = 32
    IN  IF ~is_erc20 THEN FALSE
        ELSE /\ log.address \in filter.contracts
             /\ (log.topics[2] \in filter.addresses \/ log.topics[3] \in filter.addresses)

\* u256_to_i64(log.log_index.unwrap_or_default()).unwrap_or_default()
LogIndexOf(log) ==
    LET r == u256_to_i64(IF IsSome(log.log_index) THEN Unwrap(log.log_index) ELSE U256Zero)
    IN  IF r.ok THEN r.val ELSE U256Zero

RECURSIVE Erc20Transfers(_, _, _, _, _, _)
Erc20Transfers(tx, receipt, logs, block_number, timestamp, filter) ==
    IF logs = <<>> THEN <<>>
    ELSE LET log == Head(logs)
             rest == Erc20Transfers(tx, receipt, Tail(logs), block_number, timestamp, filter)
         IN  IF IsWatchedErc20Log(log, filter)
             THEN <<from_erc20_log(tx, log, receipt, block_number, HexString(tx.hash),
                                   timestamp, log.data.value, LogIndexOf(log))>> \o rest
             ELSE rest

process_transaction_any_value(tx, receipt, block_number, block_timestamp, filter) ==
    LET native ==
            IF /\ IsSome(tx.to)
               /\ (tx.from \in filter.addresses \/ Unwrap(tx.to) \in filter.addresses)
            THEN <<from_eth_tx(tx, receipt, block_number, block_timestamp, U256Zero)>>
            ELSE <<>>
    IN  native \o Erc20Transfers(tx, receipt, receipt.logs, block_number, block_timestamp, filter)

\* models/domain/transfer.rs Transfer::process_transaction
process_transaction(tx, receipt, block_number, block_timestamp, filter) ==
    LET native ==
            IF /\ IsSome(tx.to)
               /\ ~U256IsZero(tx.value)
               /\ (tx.from \in filter.addresses \/ Unwrap(tx.to) \in filter.addresses)
            THEN <<from_eth_tx(tx, receipt, block_number, block_timestamp, U256Zero)>>
            ELSE <<>>
    IN  native \o Erc20Transfers(tx, receipt, receipt.logs, block_number, block_timestamp, filter)

\* What get_transaction_receipt gives for a transaction: the receipt, no
\* receipt (Ok(None)), or an error after the retries.
ReceiptOutcomes == {"some", "none", "err"}

ReceiptSuccessfulAlways(receipt) == TRUE

\* services/block_service.rs:208 the receipt gate
ReceiptSuccessful(receipt) == receipt.status = Some(1)

\* services/block_service.rs:184-218 the loop over block.transactions:
\* the transfers and the skipped count, from transaction i on
RECURSIVE ExtractFrom(_, _, _, _, _, _)
ExtractFrom(block, outcome, i, block_number, block_timestamp, filter) ==
    IF i > Len(block.transactions) THEN [transfers |-> <<>>, skipped |-> 0]
    ELSE LET tx == block.transactions[i]
             receipt == block.receipts[i]
             rest == ExtractFrom(block, outcome, i + 1, block_number, block_timestamp, filter)
             skip == [rest EXCEPT !.skipped = @ + 1]
         IN  IF ~is_target_transaction(tx) THEN skip
             ELSE IF outcome[i] # "some" THEN skip
             ELSE IF ~ReceiptSuccessful(receipt) THEN skip
             ELSE [rest EXCEPT !.transfers =
                     process_transaction(tx, receipt, block_number, block_timestamp, filter) \o @]

\* ------------------------------------------------------------ repositories
\* The relations eth_block and eth_transfer are the sequences of their rows in
\* insertion order (the serial id column).

InsertBlockNoConflict(rows, row) == Append(rows, row)

\* repositories/block_repository.rs save: INSERT .. ON CONFLICT (block_number)
\* DO NOTHING
InsertBlock(rows, row) ==
    IF \E i \in 1..Len(rows) : rows[i].block_number = row.block_number
    THEN rows
    ELSE Append(rows, row)

InsertTransferNoConflict(rows, row) == Append(rows, row)

\* one row of INSERT .. ON CONFLICT (tx_hash, log_index) DO NOTHING
InsertTransfer(rows, row) ==
    IF \E i \in 1..Len(rows) :
          rows[i].tx_hash = row.tx_hash /\ rows[i].log_index = row.log_index
    THEN rows
    ELSE Append(rows, row)

RECURSIVE InsertChunk(_, _)
InsertChunk(rows, chunk) ==
    IF chunk = <<>> THEN rows
    ELSE InsertChunk(InsertTransfer(rows, Head(chunk)), Tail(chunk))

ChunkSize == 1000

\* repositories/transaction_repository.rs batch_save: the chunks of one
\* database transaction
RECURSIVE batch_save(_, _)
batch_save(rows, entities) ==
    IF entities = <<>> THEN rows
    ELSE LET n == IF Len(entities) < ChunkSize THEN Len(entities) ELSE ChunkSize
         IN  batch_save(InsertChunk(rows, SubSeq(entities, 1, n)),
                        SubSeq(entities, n + 1, Len(entities)))

\* repositories/block_repository.rs get_last_block_number: ORDER BY
\* block_number DESC, first row
get_last_block_number(rows) ==
    IF rows = <<>> THEN None
    ELSE LET i == CHOOSE j \in 1..Len(rows) :
                    \A k \in 1..Len(rows) : rows[k].block_number <= rows[j].block_number
         IN  Some([block_number |-> rows[i].block_number,
                   block_hash |-> rows[i].block_hash,
                   parent_hash |-> rows[i].parent_hash])

\* ------------------------------------------------------- sync pass helpers
MaxSafeBlockNoDelay(current_net_block, delay) == current_net_block

\* services/block_service.rs:62 current_net_block.saturating_sub(delay)
MaxSafeBlock(current_net_block, delay) ==
    IF delay > current_net_block THEN 0 ELSE current_net_block - delay

NextBlockOffByOne(local, init_height) ==
    (IF IsSome(local) THEN Unwrap(local).block_number ELSE init_height) + 1

\* services/block_service.rs:70-73
NextBlock(local, init_height) ==
    IF IsSome(local) THEN Unwrap(local).block_number + 1 ELSE init_height

ParentMismatchNever(local, block) == FALSE

\* services/block_service.rs:114-115 the parent-hash check
ParentMismatch(local, block) ==
    IsSome(local) /\ block.parent_hash # Unwrap(local).block_hash

AdvanceNot(next) == next

\* services/block_service.rs:143 next_block += 1
Advance(next) == next + 1

\* services/block_service.rs:156-176 the conversions and Block::new; the
\* header values that pass the conversions are below 2^53, where the cast to
\* f64 and back is exact
NewBlock(block) ==
    LET block_number == option_u64_to_i64(block.number)
        gas_used == u256_to_i64(block.gas_used)
        base_fee_per_gas == opt_u256_to_i64_loose(block.base_fee_per_gas)
        block_timestamp == u256_to_i64(block.timestamp)
        size == usize_to_i32(block.transactions_len)
    IN  IF ~block_number.ok THEN block_number
        ELSE IF ~gas_used.ok THEN gas_used
        ELSE IF ~base_fee_per_gas.ok THEN base_fee_per_gas
        ELSE IF ~block_timestamp.ok THEN block_timestamp
        ELSE IF ~size.ok THEN size
        ELSE Ok([block_number |-> block_number.val,
                 block_hash |-> h256_opt_to_string(block.hash),
                 parent_hash |-> h256_to_string(block.parent_hash),
                 gas_used |-> u256_to_bigdecimal(gas_used.val),
                 base_fee_per_gas |-> u256_to_bigdecimal(base_fee_per_gas.val),
                 timestamp |-> block_timestamp.val,
                 size |-> size.val])

\* ------------------------------------------------------------------ state
InitHeights == {0, 1}       \* ethereum.init_height
Delays == {0, 2}            \* ethereum.delay

VARIABLES
    config,                 \* EthereumConfig: init_height, delay
    net_head,               \* the network: height of the head
    fork,                   \* the network: fork of the block at each height
    reorgs,                 \* reorganisations so far
    filter,                 \* index of the published filter snapshot
    eth_block,              \* relation eth_block
    eth_transfer,           \* relation eth_transfer
    pc,                     \* where the supervisor's task stands
    current_net_block,      \* sync_blocks: head read at the start of the pass
    max_safe_block,         \* sync_blocks: safe height of the pass
    local_block,            \* sync_blocks: Option<BlockQuery>
    next_block,             \* sync_blocks: height to fetch
    fetched,                \* answer of the last get_block_with_txs
    block_data,             \* the block being processed
    receipt_outcome,        \* answers of get_transaction_receipt for block_data
    processed_transfers,    \* process_and_save_block: transfers extracted
    skipped_tx_count,       \* process_and_save_block: transactions skipped
    result,                 \* what the last pass returned
    pass_error,             \* the error of Err(e) the last pass returned
    sleep_secs              \* the sleep the supervisor is in, in seconds

\* The RPC layer (infrastructure/provider): one call through RetryAdapter and
\* the endpoint pool it picks from.
VARIABLES
    retry_config,           \* RetryAdapter: max_retries, base_delay_secs
    retry_pc,               \* retry_call: where the call stands
    attempt,                \* retry_call: the loop variable
    last_error,             \* retry_call: Option<ProviderError>
    retry_result,           \* retry_call: what the call returned
    rpc_log,                \* the results of f(p), in call order
    sleep_log,              \* the sleeps of the call in milliseconds, in order
    pool,                   \* EthereumProvider: providers.len(), and who picks
    index,                  \* EthereumProvider: the AtomicUsize
    caller_i,               \* get_provider: the value each caller got from fetch_add
    picks                   \* the picks, in the order of their fetch_add

\* The filter registry (config/filter_config.rs): the two files, the watcher
\* thread and the published snapshot.
VARIABLES
    contracts_file,         \* content of config/contracts.toml
    address_file,           \* content of config/address.toml
    file_states,            \* the contents the two files have had together
    events,                 \* watch_config: the events waiting in rx
    fs_events,              \* file system events so far
    watcher_pc,             \* watch_config: where the watcher thread stands
    w_contracts,            \* FilterConfig::load: the contracts read
    w_config,               \* watch_config: new_config
    current,                \* FilterConfigContainer: the ArcSwap
    stores,                 \* stores of the watcher that have returned
    held                    \* the snapshot a reader got from load()

registry_vars == <<contracts_file, address_file, file_states, events, fs_events,
                   watcher_pc, w_contracts, w_config, current, stores, held>>
\* The extractor (infrastructure/parser/parser.rs): one call of
\* parse_transfers_from_block.
VARIABLES
    parse_call,             \* the arguments: block, filter_config
    parse_outcome,          \* what get_transaction_receipt gave, transaction by transaction
    parse_result            \* what the call returned, with the receipts it requested

parser_vars == <<parse_call, parse_outcome, parse_result>>

\* The process (startup/startup.rs run, main.rs): the termination signals
\* delivered to it.
VARIABLES
    sigint                  \* a termination signal has been delivered

\* The transaction sender (services/tx_service.rs, services/tx/nonce):
\* concurrent calls of TxService::execute on one NonceService, a task that
\* calls NonceService::sync, and the account of the wallet on the chain.
VARIABLES
    current_nonce,          \* NonceService: the AtomicU64
    nonce_sync,             \* NonceService::sync: where it stands, new_nonce, current
    calls,                  \* TxService::execute: where each call stands, its nonce
    chain                   \* the account at the node: its transaction count, the transactions taken, pending, mined

nonce_vars == <<current_nonce, nonce_sync, calls, chain>>
process_vars == <<sigint>>
retry_vars == <<retry_config, retry_pc, attempt, last_error, retry_result, rpc_log, sleep_log>>
pool_vars == <<pool, index, caller_i, picks>>
aux == <<retry_vars, pool_vars, registry_vars, parser_vars, process_vars, nonce_vars>>

net == <<net_head, fork, reorgs>>
db == <<eth_block, eth_transfer>>
pass == <<current_net_block, max_safe_block, local_block, next_block>>
work == <<block_data, receipt_outcome, processed_transfers, skipped_tx_count>>
ret == <<result, pass_error, sleep_secs>>
sync_vars == <<config, net, filter, db, pc, pass, fetched, work, ret>>
vars == <<sync_vars, aux>>

\* ------------------------------------------------------- usize counter
\* The AtomicUsize of the pool is a 64-bit counter: its four 16-bit digits,
\* least significant first.
UsizeDigits == 4

UsizeFromNat(n) == [i \in 1..UsizeDigits |-> IF i = 1 THEN n ELSE 0]
UsizeZero == UsizeFromNat(0)
UsizeMax == [i \in 1..UsizeDigits |-> 65535]

\* the digits of c + 1 from digit i on, given that the digits below i carried
RECURSIVE CarryFrom(_, _)
CarryFrom(c, i) ==
    IF i > UsizeDigits THEN c
    ELSE IF c[i] = 65535 THEN CarryFrom([c EXCEPT ![i] = 0], i + 1)
    ELSE [c EXCEPT ![i] = c[i] + 1]

\* c % len, from the most significant digit down to digit i
RECURSIVE RemFrom(_, _, _, _)
RemFrom(c, len, i, r) ==
    IF i = 0 THEN r ELSE RemFrom(c, len, i - 1, (r * 65536 + c[i]) % len)

\* -------------------------------------------------- filter registry files
\* A file of the config directory: whether it can be read, whether it is TOML
\* with an `addresses` list, and the strings of the list.
File(readable, toml, addresses) ==
    [readable |-> readable, toml |-> toml, addresses |-> addresses]

\* the strings that parse as H160
ValidH160 == {"u1", "u2", "k1", "k2", "x"}

ContractsContents == { File(TRUE, TRUE, {"k1"}), File(TRUE, TRUE, {"k1", "k2"}) }
AddressContents ==
    { File(TRUE, TRUE, {"u1"}), File(TRUE, TRUE, {"u2", "zz"}),
      File(TRUE, FALSE, {}), File(FALSE, FALSE, {}) }

\* config/filter_config.rs load_file of a readable file: no TOML gives the
\* empty list, and the strings that do not parse are dropped
load_file(file) ==
    IF ~file.toml THEN {} ELSE {a \in file.addresses : a \in ValidH160}

\* Arc::new(FilterConfig { contracts, addresses }), with the number of the
\* store that publishes it (0: the construction of the container)
Snapshot(contracts, addresses, gen) ==
    [contracts |-> contracts, addresses |-> addresses, gen |-> gen]

RegistryIdle ==
    /\ contracts_file = File(TRUE, TRUE, {"k1"})
    /\ address_file = File(TRUE, TRUE, {"u1"})
    /\ file_states = {<<contracts_file, address_file>>}
    /\ events = <<>>
    /\ fs_events = 0
    /\ watcher_pc = "recv"
    /\ w_contracts = None
    /\ w_config = None
    /\ current = Snapshot({"k1"}, {"u1"}, 0)
    /\ stores = 0
    /\ held = None

\* the part of the system that is not running: no call through the retry
\* layer, no pick from the pool
RetryIdle ==
    /\ retry_config = [max_retries |-> 0, base_delay_secs |-> 0]
    /\ retry_pc = "idle"
    /\ attempt = 0
    /\ last_error = None
    /\ retry_result = None
    /\ rpc_log = <<>>
    /\ sleep_log = <<>>

ParserIdle ==
    /\ parse_call = None
    /\ parse_outcome = <<>>
    /\ parse_result = None

\* no signal so far
ProcessIdle == sigint = FALSE

\* no call of execute, no sync
NonceIdle ==
    /\ current_nonce = 0
    /\ nonce_sync = [pc |-> "idle", new_nonce |-> 0, current |-> 0]
    /\ calls = <<>>
    /\ chain = [nonce |-> 0, pending |-> {}, seen |-> {}, receipts |-> <<>>]

PoolIdle ==
    /\ pool = [len |-> 1, callers |-> 0, fresh |-> TRUE]
    /\ index = UsizeZero
    /\ caller_i = <<>>
    /\ picks = <<>>

Init ==
    /\ config \in [init_height : InitHeights, delay : Delays]
    /\ net_head = 0
    /\ fork = [h \in 0..(MaxHead + 1) |-> 0]
    /\ reorgs = 0
    /\ filter = 1
    /\ eth_block = <<>>
    /\ eth_transfer = <<>>
    /\ pc = "call"
    /\ current_net_block = 0
    /\ max_safe_block = 0
    /\ local_block = None
    /\ next_block = 0
    /\ fetched = "nothing"
    /\ block_data = None
    /\ receipt_outcome = <<>>
    /\ processed_transfers = <<>>
    /\ skipped_tx_count = 0
    /\ result = "none"
    /\ pass_error = None
    /\ sleep_secs = 0
    /\ RetryIdle
    /\ PoolIdle
    /\ RegistryIdle
    /\ ParserIdle
    /\ ProcessIdle
    /\ NonceIdle

\* ------------------------------------------------------------ environment
NetAdvance ==
    /\ net_head < MaxHead
    /\ net_head' = net_head + 1
    /\ UNCHANGED <<aux, config, fork, reorgs, filter, db, pc, pass, fetched, work, ret>>

\* the chain reorganises from height k upwards
NetReorg ==
    /\ reorgs < MaxReorgs
    /\ \E k \in 0..net_head :
          fork' = [h \in DOMAIN fork |-> IF h >= k THEN reorgs + 1 ELSE fork[h]]
    /\ reorgs' = reorgs + 1
    /\ UNCHANGED <<aux, config, net_head, filter, db, pc, pass, fetched, work, ret>>

\* config/filter_config.rs watch_config: a modify or create event reloads the
\* files and stores the new snapshot
FilterReload ==
    /\ filter < Len(FilterSnapshots)
    /\ filter' = filter + 1
    /\ UNCHANGED <<aux, config, net, db, pc, pass, fetched, work, ret>>

\* services/block_service.rs:124-127 anyhow!("Chain re-org detected at block {}",
\* block_number): the error names the height
ChainReorgDetected(block_number) == [kind |-> "err_reorg", block |-> block_number]

\* services/block_service.rs:136 anyhow!("block {} missing hash", block_number)
MissingHash(block_number) == [kind |-> "err_missing_hash", block |-> block_number]

\* the value of sync_blocks: Ok(()), or Err(e) with what e names
ErrorOf(r, block_number) ==
    IF r = "ok" THEN None
    ELSE IF r = "err_reorg" THEN Some(ChainReorgDetected(block_number))
    ELSE IF r = "err_missing_hash" THEN Some(MissingHash(block_number))
    ELSE Some([kind |-> r])

OkSleepSecs == 1        \* startup/startup.rs:78 Duration::from_secs(1)
ErrSleepSecs == 5       \* startup/startup.rs:83 Duration::from_secs(5)

\* startup/startup.rs:75-85 the arm of the match on the value of the pass
SupervisorSleep(r) == IF r = "ok" THEN OkSleepSecs ELSE ErrSleepSecs

\* the pass returns r to the supervisor loop, which goes to sleep
Return(r) ==
    /\ pc' = "sleep"
    /\ result' = r
    /\ pass_error' = ErrorOf(r, next_block)
    /\ sleep_secs' = SupervisorSleep(r)

\* startup/startup.rs:74-86 the sleep of the supervisor loop is over
\* the locals of a pass that has returned are gone
NoPass ==
    /\ current_net_block' = 0
    /\ max_safe_block' = 0
    /\ local_block' = None
    /\ next_block' = 0
    /\ fetched' = "nothing"
    /\ result' = "none"
    /\ pass_error' = None

\* the locals of one iteration of the loop of sync_blocks are gone
NoWork ==
    /\ block_data' = None
    /\ receipt_outcome' = <<>>
    /\ processed_transfers' = <<>>
    /\ skipped_tx_count' = 0

WakeAfterOkOnly ==
    /\ pc = "sleep"
    /\ result = "ok"
    /\ pc' = "call"
    /\ sleep_secs' = 0
    /\ NoPass
    /\ NoWork
    /\ UNCHANGED <<aux, config, net, filter, db>>

\* startup/startup.rs:74-86 the sleep of the supervisor loop is over
Wake ==
    /\ pc = "sleep"
    /\ pc' = "call"
    /\ sleep_secs' = 0
    /\ NoPass
    /\ NoWork
    /\ UNCHANGED <<aux, config, net, filter, db>>

\* ------------------------------------------------------------- sync pass
\* services/block_service.rs:55-59 get_last_block_number fails after the retries
SyncHeadFails ==
    /\ pc = "call"
    /\ Return("err_head")
    /\ UNCHANGED <<aux, config, net, filter, db, pass, fetched, work>>

\* services/block_service.rs:64-66 the read of the last row fails
SyncLastBlockFails ==
    /\ pc = "call"
    /\ Return("err_database")
    /\ current_net_block' = net_head
    /\ max_safe_block' = MaxSafeBlock(net_head, config.delay)
    /\ UNCHANGED <<aux, config, net, filter, db, local_block, next_block, fetched, work>>

\* services/block_service.rs:55-83 the head, the safe height, the cursor
SyncStart ==
    /\ pc = "call"
    /\ current_net_block' = net_head
    /\ max_safe_block' = MaxSafeBlock(net_head, config.delay)
    /\ LET row == get_last_block_number(eth_block)
           query == IF IsSome(row) THEN BlockQueryTryFrom(Unwrap(row)) ELSE Ok(None)
       IN  IF ~query.ok
           THEN /\ Return("err_conversion")
                /\ UNCHANGED <<local_block, next_block>>
           ELSE /\ local_block' = IF IsSome(row) THEN Some(query.val) ELSE None
                /\ next_block' = NextBlock(local_block', config.init_height)
                /\ IF next_block' > max_safe_block'
                   THEN Return("ok")
                   ELSE pc' = "loop" /\ UNCHANGED ret
    /\ fetched' = "nothing"
    /\ UNCHANGED <<aux, config, net, filter, db, work>>

\* services/block_service.rs:89,145-146 the loop condition fails: Ok(())
LoopExit ==
    /\ pc = "loop"
    /\ ~(next_block <= max_safe_block)
    /\ Return("ok")
    /\ NoWork
    /\ UNCHANGED <<aux, config, net, filter, db, pass, fetched>>

\* services/block_service.rs:96-104 Ok(None): sleep, continue
FetchNone ==
    /\ pc = "loop"
    /\ next_block <= max_safe_block
    /\ fetched' = "ok_none"
    /\ NoWork
    /\ UNCHANGED <<aux, config, net, filter, db, pc, pass, ret>>

\* services/block_service.rs:105-111 Err: sleep, continue
FetchErr ==
    /\ pc = "loop"
    /\ next_block <= max_safe_block
    /\ fetched' = "err"
    /\ NoWork
    /\ UNCHANGED <<aux, config, net, filter, db, pc, pass, ret>>

\* services/block_service.rs:94-129 Ok(Some(block)) and the parent-hash check,
\* the node answering with one of the given blocks
FetchBlockIn(blocks) ==
    /\ pc = "loop"
    /\ next_block <= max_safe_block
    /\ next_block <= net_head
    /\ \E block \in blocks : block_data' = Some(block)
    /\ fetched' = "block"
    /\ IF ParentMismatch(local_block, Unwrap(block_data'))
       THEN Return("err_reorg")
       ELSE pc' = "process" /\ UNCHANGED ret
    /\ receipt_outcome' = <<>>
    /\ processed_transfers' = <<>>
    /\ skipped_tx_count' = 0
    /\ UNCHANGED <<aux, config, net, filter, db, pass>>

\* the block carrying one of the given transaction lists
FetchBlockFrom(bodies) ==
    FetchBlockIn({ NetBlock(next_block, fork, hashPresent, numerics, body) :
                      hashPresent \in BOOLEAN, numerics \in BlockNumerics, body \in bodies })

FetchBlock == FetchBlockFrom(BlockBodies)

\* a network whose blocks carry one native transfer of a watched user
OneTransferBodies == { <<NativeOk>> }

FetchOneTransferBlock == FetchBlockFrom(OneTransferBodies)

\* services/block_service.rs:156-166 a conversion of the header fails
ConvertFails ==
    /\ pc = "process"
    /\ ~NewBlock(Unwrap(block_data)).ok
    /\ Return("err_conversion")
    /\ UNCHANGED <<aux, config, net, filter, db, pass, fetched, work>>

SaveBlockErrorIgnored ==
    /\ pc = "process"
    /\ NewBlock(Unwrap(block_data)).ok
    /\ pc' = "extract"
    /\ UNCHANGED <<aux, config, net, filter, db, pass, fetched, work, ret>>

\* services/block_service.rs:179 block_repository.save returns an error
SaveBlockFails ==
    /\ pc = "process"
    /\ NewBlock(Unwrap(block_data)).ok
    /\ Return("err_database")
    /\ UNCHANGED <<aux, config, net, filter, db, pass, fetched, work>>

\* services/block_service.rs:156-179 block_repository.save inserts the row
SaveBlock ==
    /\ pc = "process"
    /\ NewBlock(Unwrap(block_data)).ok
    /\ eth_block' = InsertBlock(eth_block, NewBlock(Unwrap(block_data)).val)
    /\ pc' = "extract"
    /\ UNCHANGED <<aux, config, net, filter, eth_transfer, pass, fetched, work, ret>>

\* services/block_service.rs:134-143 back in sync_blocks after the block
AfterBlock ==
    IF ~IsSome(Unwrap(block_data).hash)
    THEN /\ Return("err_missing_hash")
         /\ UNCHANGED <<local_block, next_block>>
    ELSE /\ local_block' = Some([block_number |-> next_block,
                                 block_hash |-> Unwrap(Unwrap(block_data).hash)])
         /\ next_block' = Advance(next_block)
         /\ pc' = "loop"
         /\ UNCHANGED ret

\* services/block_service.rs:181-233 the receipts, the extraction, batch_save
Extract(outcome) ==
    LET new_block == NewBlock(Unwrap(block_data)).val
    IN  ExtractFrom(Unwrap(block_data), outcome, 1, new_block.block_number,
                    new_block.timestamp, FilterSnapshots[filter])

SaveTransfers ==
    /\ pc = "extract"
    /\ \E outcome \in [1..Len(Unwrap(block_data).transactions) -> ReceiptOutcomes] :
          /\ receipt_outcome' = outcome
          /\ processed_transfers' = Extract(outcome).transfers
          /\ skipped_tx_count' = Extract(outcome).skipped
    /\ eth_transfer' = batch_save(eth_transfer, processed_transfers')
    /\ AfterBlock
    /\ UNCHANGED <<aux, config, net, filter, eth_block, current_net_block, max_safe_block,
                   fetched, block_data>>

\* services/block_service.rs:221-225 batch_save returns an error: the
\* database transaction of the chunks is rolled back
SaveTransfersFails ==
    /\ pc = "extract"
    /\ \E outcome \in [1..Len(Unwrap(block_data).transactions) -> ReceiptOutcomes] :
          /\ receipt_outcome' = outcome
          /\ processed_transfers' = Extract(outcome).transfers
          /\ skipped_tx_count' = Extract(outcome).skipped
    /\ processed_transfers' # <<>>
    /\ Return("err_database")
    /\ UNCHANGED <<aux, config, net, filter, db, pass, fetched, block_data>>

Next ==
    \/ NetAdvance
    \/ NetReorg
    \/ Wake
    \/ SyncHeadFails
    \/ SyncLastBlockFails
    \/ SyncStart
    \/ LoopExit
    \/ FetchNone
    \/ FetchErr
    \/ FetchBlock
    \/ ConvertFails
    \/ SaveBlockFails
    \/ SaveBlock
    \/ SaveTransfers
    \/ SaveTransfersFails

\* The sync engine under one published filter snapshot.
Spec == Init /\ [][Next]_vars

\* ============================================================ the RPC layer
\* ----------------------------------------------------- endpoint pool
PoolSizes == {1, 2, 3}      \* providers.len(): the api keys of the configuration

fetch_add_same(c) == c

\* self.index.fetch_add(1, Ordering::Relaxed): the new value, wrapping
fetch_add(c) == CarryFrom(c, 1)

provider_at_zero(i, len) == 0

\* i % self.providers.len(): the position of the handle in the pool
provider_at(i, len) == RemFrom(i, len, UsizeDigits, 0)

\* ------------------------------------------------------- retry layer
MaxRetriesValues == {0, 1, 3, 13}   \* ethereum.max_retries
BaseDelaySecs == {0, 1}             \* ethereum.base_delay_secs

\* what the node answers to one call: a value, no value (Ok(None)), or the
\* transport fails
RpcValues == {"some", "none"}

\* the ProviderError of the call number n (0-based) of a retried call; the
\* errors of different calls are different values
TransportError(n) == [kind |-> "transport", call |-> n]

RECURSIVE Pow2(_)
Pow2(n) == IF n = 0 THEN 1 ELSE 2 * Pow2(n - 1)

Min(a, b) == IF a < b THEN a ELSE b

\* retry_adapter.rs:44-48 delay_ms of the sleep before the call `attempt`
DelayMs(base_delay_secs, att) ==
    LET exponent == Min(att - 1, 10)
        base_ms == base_delay_secs * 1000
    IN  base_ms * Pow2(exponent)

\* retry_adapter.rs:52 gen_range(0..=(delay_ms / 10 + 1)): the two ends of the
\* range
JitterValues(delay_ms) == {0, delay_ms \div 10 + 1}

InRangeInclusive(att, max_retries) == att <= max_retries

\* retry_adapter.rs:40 for attempt in 0..self.max_retries
InRange(att, max_retries) == att < max_retries

RecordFirstError(last, e) == IF IsSome(last) THEN last ELSE Some(e)

\* retry_adapter.rs:68 last_error = Some(e)
RecordError(last, e) == Some(e)

\* retry_adapter.rs:73-76 the error of a call that ran out of attempts
AggregatedError(max_retries, last) ==
    [kind |-> "ProviderError", retries |-> max_retries, last_error |-> last]

\* usize::MAX - 1: the counter after that many picks
UsizeNearWrap == [UsizeMax EXCEPT ![1] = 65534]

\* one call through retry_call, under one of the configurations and against
\* one of the pools
RetryInitWith(configs, pools) ==
    /\ retry_config \in configs
    /\ retry_pc = "loop"
    /\ attempt = 0
    /\ last_error = None
    /\ retry_result = None
    /\ rpc_log = <<>>
    /\ sleep_log = <<>>
    /\ pool \in pools
    /\ index = IF pool.fresh THEN UsizeZero ELSE UsizeNearWrap
    /\ caller_i = <<>>
    /\ picks = <<>>

\* one call through retry_call, against a fresh pool
RetryInit ==
    RetryInitWith([max_retries : MaxRetriesValues, base_delay_secs : BaseDelaySecs],
                  {[len |-> 2, callers |-> 0, fresh |-> TRUE]})

\* retry_adapter.rs:40-63 the next iteration of the loop: the sleep before
\* every attempt but the first
RetryBackoff ==
    /\ retry_pc = "loop"
    /\ InRange(attempt, retry_config.max_retries)
    /\ IF attempt > 0
       THEN \E jitter \in JitterValues(DelayMs(retry_config.base_delay_secs, attempt)) :
               sleep_log' = Append(sleep_log,
                                   DelayMs(retry_config.base_delay_secs, attempt) + jitter)
       ELSE UNCHANGED sleep_log
    /\ retry_pc' = "call"
    /\ UNCHANGED <<sync_vars, process_vars, nonce_vars, registry_vars, parser_vars, retry_config, attempt, last_error, retry_result, rpc_log,
                   pool_vars>>

\* retry_adapter.rs:64-66 the call on the picked provider returns Ok(result)
RetryAttemptOk ==
    /\ retry_pc = "call"
    /\ index' = fetch_add(index)
    /\ picks' = Append(picks, [caller |-> 0, i |-> index,
                               handle |-> Some(provider_at(index, pool.len))])
    /\ \E v \in RpcValues :
          /\ rpc_log' = Append(rpc_log, Ok(v))
          /\ retry_result' = Some(Ok(v))
    /\ retry_pc' = "done"
    /\ UNCHANGED <<sync_vars, process_vars, nonce_vars, registry_vars, parser_vars, retry_config, attempt, last_error, sleep_log, pool, caller_i>>

\* retry_adapter.rs:64-71 the call on the picked provider fails
RetryAttemptErr ==
    /\ retry_pc = "call"
    /\ index' = fetch_add(index)
    /\ picks' = Append(picks, [caller |-> 0, i |-> index,
                               handle |-> Some(provider_at(index, pool.len))])
    /\ rpc_log' = Append(rpc_log, Err(TransportError(attempt)))
    /\ last_error' = RecordError(last_error, TransportError(attempt))
    /\ attempt' = attempt + 1
    /\ retry_pc' = "loop"
    /\ UNCHANGED <<sync_vars, process_vars, nonce_vars, registry_vars, parser_vars, retry_config, retry_result, sleep_log, pool, caller_i>>

\* retry_adapter.rs:40,73-76 the loop is over: the aggregated error
RetryExhausted ==
    /\ retry_pc = "loop"
    /\ ~InRange(attempt, retry_config.max_retries)
    /\ retry_result' = Some(Err(AggregatedError(retry_config.max_retries, last_error)))
    /\ retry_pc' = "done"
    /\ UNCHANGED <<sync_vars, process_vars, nonce_vars, registry_vars, parser_vars, retry_config, attempt, last_error, rpc_log, sleep_log,
                   pool_vars>>

RetryNext ==
    \/ RetryBackoff
    \/ RetryAttemptOk
    \/ RetryAttemptErr
    \/ RetryExhausted

\* The sync engine at rest
SyncIdle ==
    /\ config = [init_height |-> 0, delay |-> 0]
    /\ net_head = 0
    /\ fork = [h \in 0..(MaxHead + 1) |-> 0]
    /\ reorgs = 0
    /\ filter = 1
    /\ eth_block = <<>>
    /\ eth_transfer = <<>>
    /\ pc = "call"
    /\ current_net_block = 0
    /\ max_safe_block = 0
    /\ local_block = None
    /\ next_block = 0
    /\ fetched = "nothing"
    /\ block_data = None
    /\ receipt_outcome = <<>>
    /\ processed_transfers = <<>>
    /\ skipped_tx_count = 0
    /\ result = "none"
    /\ pass_error = None
    /\ sleep_secs = 0

\* ------------------------------------------------- picks from the pool
\* The pool with one or two tasks that pick from it, fresh or shortly before
\* the counter wraps.
PoolInit ==
    /\ pool \in [len : PoolSizes, callers : {1, 2}, fresh : BOOLEAN]
    /\ index = IF pool.fresh THEN UsizeZero ELSE UsizeNearWrap
    /\ caller_i = [c \in 1..pool.callers |-> None]
    /\ picks = <<>>

\* ethereum_provider.rs:75 caller c takes its value of the counter
PickFetchAdd(c) ==
    /\ caller_i[c] = None
    /\ Len(picks) < MaxPicks
    /\ caller_i' = [caller_i EXCEPT ![c] = Some(index)]
    /\ index' = fetch_add(index)
    /\ picks' = Append(picks, [caller |-> c, i |-> index, handle |-> None])
    /\ UNCHANGED <<sync_vars, process_vars, nonce_vars, registry_vars, parser_vars, retry_vars, pool>>

\* ethereum_provider.rs:76 caller c gets the handle at its value modulo the
\* pool size
PickReturn(c) ==
    /\ IsSome(caller_i[c])
    /\ picks' = [j \in 1..Len(picks) |->
                    IF picks[j].caller = c /\ picks[j].handle = None
                    THEN [picks[j] EXCEPT !.handle =
                             Some(provider_at(Unwrap(caller_i[c]), pool.len))]
                    ELSE picks[j]]
    /\ caller_i' = [caller_i EXCEPT ![c] = None]
    /\ UNCHANGED <<sync_vars, process_vars, nonce_vars, registry_vars, parser_vars, retry_vars, pool, index>>

GetProviderFetchAdd == \E c \in 1..pool.callers : PickFetchAdd(c)
GetProviderReturn == \E c \in 1..pool.callers : PickReturn(c)

PoolNext ==
    \/ GetProviderFetchAdd
    \/ GetProviderReturn

\* Tasks picking providers from the pool.
PoolSpecInit ==
    /\ SyncIdle
    /\ ProcessIdle
    /\ NonceIdle
    /\ RetryIdle
    /\ RegistryIdle
    /\ ParserIdle
    /\ PoolInit

PoolSpec == PoolSpecInit /\ [][PoolNext]_vars

\* One call through the retry layer.
RetrySpecInit ==
    /\ SyncIdle
    /\ ProcessIdle
    /\ NonceIdle
    /\ RegistryIdle
    /\ ParserIdle
    /\ RetryInit

RetrySpec == RetrySpecInit /\ [][RetryNext]_vars

\* One call through the retry layer, the only caller of a pool of any size
\* whose counter is fresh or shortly before it wraps.
RetryPoolSpecInit ==
    /\ SyncIdle
    /\ ProcessIdle
    /\ NonceIdle
    /\ RegistryIdle
    /\ ParserIdle
    /\ RetryInitWith([max_retries : {0, 1, 3}, base_delay_secs : BaseDelaySecs],
                     [len : PoolSizes, callers : {0}, fresh : BOOLEAN])

RetryPoolSpec == RetryPoolSpecInit /\ [][RetryNext]_vars

\* ======================================================= the filter registry
\* the kinds of event the watcher tells apart (event.kind.is_modify(),
\* is_create(), any other kind), and the error of the watch
ReloadKinds == {"modify", "create"}

ArcSwapStoreLost(cur, new) == cur

\* self.current.store(new_config)
ArcSwapStore(cur, new) == new

\* self.current.load_full()
ArcSwapLoad(cur) == cur

\* config/filter_config.rs:26-39 FilterConfigContainer::new: the snapshot of
\* the files as they are, the watcher waiting for events
RegistryInit ==
    /\ contracts_file \in ContractsContents
    /\ address_file \in {f \in AddressContents : f.readable}
    /\ file_states = {<<contracts_file, address_file>>}
    /\ events = <<>>
    /\ fs_events = 0
    /\ watcher_pc = "recv"
    /\ w_contracts = None
    /\ w_config = None
    /\ current = Snapshot(load_file(contracts_file), load_file(address_file), 0)
    /\ stores = 0
    /\ held = None

\* somebody writes config/contracts.toml
EditContracts ==
    /\ fs_events < MaxEvents
    /\ \E f \in ContractsContents \ {contracts_file} :
          /\ contracts_file' = f
          /\ file_states' = file_states \cup {<<f, address_file>>}
    /\ events' = Append(events, "modify")
    /\ fs_events' = fs_events + 1
    /\ UNCHANGED <<sync_vars, process_vars, nonce_vars, parser_vars, retry_vars, pool_vars, address_file, watcher_pc,
                   w_contracts, w_config, current, stores, held>>

\* somebody writes, creates or removes config/address.toml
EditAddresses ==
    /\ fs_events < MaxEvents
    /\ \E f \in AddressContents \ {address_file} :
          /\ address_file' = f
          /\ file_states' = file_states \cup {<<contracts_file, f>>}
          /\ events' = Append(events, IF ~f.readable THEN "remove"
                                      ELSE IF ~address_file.readable THEN "create"
                                      ELSE "modify")
    /\ fs_events' = fs_events + 1
    /\ UNCHANGED <<sync_vars, process_vars, nonce_vars, parser_vars, retry_vars, pool_vars, contracts_file, watcher_pc,
                   w_contracts, w_config, current, stores, held>>

\* config/filter_config.rs:71 the watch reports an error
WatchError ==
    /\ fs_events < MaxEvents
    /\ events' = Append(events, "error")
    /\ fs_events' = fs_events + 1
    /\ UNCHANGED <<sync_vars, process_vars, nonce_vars, parser_vars, retry_vars, pool_vars, contracts_file, address_file,
                   file_states, watcher_pc, w_contracts, w_config, current, stores, held>>

\* config/filter_config.rs:60-65 the watcher takes the next event
WatchRecv ==
    /\ watcher_pc = "recv"
    /\ events # <<>>
    /\ events' = Tail(events)
    /\ watcher_pc' = IF Head(events) \in ReloadKinds THEN "load_contracts" ELSE "recv"
    /\ UNCHANGED <<sync_vars, process_vars, nonce_vars, parser_vars, retry_vars, pool_vars, contracts_file, address_file,
                   file_states, fs_events, w_contracts, w_config, current, stores, held>>

\* config/filter_config.rs:79,87-99 FilterConfig::load reads the contracts
LoadContracts ==
    /\ watcher_pc = "load_contracts"
    /\ IF ~contracts_file.readable
       THEN watcher_pc' = "panicked" /\ UNCHANGED w_contracts
       ELSE /\ w_contracts' = Some(load_file(contracts_file))
            /\ watcher_pc' = "load_addresses"
    /\ UNCHANGED <<sync_vars, process_vars, nonce_vars, parser_vars, retry_vars, pool_vars, contracts_file, address_file,
                   file_states, events, fs_events, w_config, current, stores, held>>

\* config/filter_config.rs:80-84,87-99 FilterConfig::load reads the addresses
LoadAddresses ==
    /\ watcher_pc = "load_addresses"
    /\ IF ~address_file.readable
       THEN watcher_pc' = "panicked" /\ UNCHANGED w_config
       ELSE /\ w_config' = Some(Snapshot(Unwrap(w_contracts), load_file(address_file),
                                         stores + 1))
            /\ watcher_pc' = "store"
    /\ UNCHANGED <<sync_vars, process_vars, nonce_vars, parser_vars, retry_vars, pool_vars, contracts_file, address_file,
                   file_states, events, fs_events, w_contracts, current, stores, held>>

\* config/filter_config.rs:67 the watcher publishes new_config
Store ==
    /\ watcher_pc = "store"
    /\ current' = ArcSwapStore(current, Unwrap(w_config))
    /\ stores' = stores + 1
    /\ w_contracts' = None
    /\ w_config' = None
    /\ watcher_pc' = "recv"
    /\ UNCHANGED <<sync_vars, process_vars, nonce_vars, parser_vars, retry_vars, pool_vars, contracts_file, address_file,
                   file_states, events, fs_events, held>>

\* config/filter_config.rs:42-44 a reader takes the current snapshot, after
\* `stores` stores of the watcher have returned
ReaderLoad ==
    /\ held' = Some([snapshot |-> ArcSwapLoad(current), after |-> stores])
    /\ held' # held
    /\ UNCHANGED <<sync_vars, process_vars, nonce_vars, parser_vars, retry_vars, pool_vars, contracts_file, address_file,
                   file_states, events, fs_events, watcher_pc, w_contracts, w_config,
                   current, stores>>

RegistryNext ==
    \/ EditContracts
    \/ EditAddresses
    \/ WatchError
    \/ WatchRecv
    \/ LoadContracts
    \/ LoadAddresses
    \/ Store
    \/ ReaderLoad

\* The registry, its watcher, a reader and the editors of the two files.
RegistrySpecInit ==
    /\ SyncIdle
    /\ ProcessIdle
    /\ NonceIdle
    /\ RetryIdle
    /\ PoolIdle
    /\ ParserIdle
    /\ RegistryInit

RegistrySpec == RegistrySpecInit /\ [][RegistryNext]_vars

\* The same, the watcher thread being scheduled: it takes an event that waits
\* in its channel, and goes through the load and the store it has begun.
RegistryLiveSpec ==
    /\ RegistrySpecInit
    /\ [][RegistryNext]_vars
    /\ WF_vars(WatchRecv)
    /\ WF_vars(LoadContracts)
    /\ WF_vars(LoadAddresses)
    /\ WF_vars(Store)

\* ============================================================ the extractor
\* more transactions a block may carry
ShortInput      == Tx("u1", Some("x"), "short", 1, Some(1), <<>>)
Erc20FromOther  == Tx("x", Some("k1"), "transfer", 0, Some(1),
                      <<Log("k1", "x", "u1", Some(U256FromNat(3)))>>)
Erc20WithValue  == Tx("u1", Some("k1"), "transfer", 1, Some(1),
                      <<Log("k1", "u1", "x", Some(U256FromNat(4)))>>)
NativeUnwatched == Tx("x", Some("y"), "empty", 1, Some(1), <<>>)

\* a log of any shape: its topics and the length of its data
RawLog(addr, topics, len, idx) ==
    [address |-> addr, topics |-> topics,
     data |-> [len |-> len, value |-> U256FromNat(5)], log_index |-> idx]

\* calls of transfer(address,uint256) whose receipts carry other logs: the
\* Transfer event of an ERC-721 token (four topics, no data), a log with two
\* topics, an Approval event, a log with 64 bytes of data
Erc721Transfer  == Tx("u1", Some("k1"), "transfer", 0, Some(1),
                      <<RawLog("k1", <<ERC20_TRANSFER_TOPIC, "u1", "x", "id">>, 0,
                               Some(U256FromNat(1)))>>)
Erc20TwoTopics  == Tx("u1", Some("k1"), "transfer", 0, Some(1),
                      <<RawLog("k1", <<ERC20_TRANSFER_TOPIC, "u1">>, 32,
                               Some(U256FromNat(1)))>>)
Erc20Approval   == Tx("u1", Some("k1"), "transfer", 0, Some(1),
                      <<RawLog("k1", <<"8c5be1e5", "u1", "x">>, 32, Some(U256FromNat(1)))>>)
Erc20LongData   == Tx("u1", Some("k1"), "transfer", 0, Some(1),
                      <<RawLog("k1", <<ERC20_TRANSFER_TOPIC, "u1", "x">>, 64,
                               Some(U256FromNat(1)))>>)
\* three Transfer events of the watched token, the second between strangers
Erc20ThreeLogs  == Tx("u1", Some("k1"), "transfer", 0, Some(1),
                      <<Log("k1", "u1", "x", Some(U256FromNat(1))),
                        Log("k1", "x", "y", Some(U256FromNat(2))),
                        Log("k1", "x", "u1", Some(U256FromNat(3)))>>)
\* a call to an unwatched contract that moves the watched token and its own
Erc20ViaRouter  == Tx("u1", Some("k2"), "transfer", 0, Some(1),
                      <<Log("k2", "u1", "x", Some(U256FromNat(1))),
                        Log("k1", "u1", "x", Some(U256FromNat(2)))>>)

ParserTxs ==
    { NativeOk, NativeToU2, NativeFailed, NativeNoStat, NativeZero, Erc20Ok,
      Erc20Unwatched, Creation, ShortInput, Erc20FromOther, Erc20WithValue,
      NativeUnwatched, NativeWithLog, Erc721Transfer, Erc20TwoTopics,
      Erc20Approval, Erc20LongData, Erc20ThreeLogs, Erc20ViaRouter }

\* the transaction lists of the blocks given to the extractor
ParserBodies ==
    {<<>>} \cup {<<a>> : a \in ParserTxs} \cup {<<a, b>> : a \in ParserTxs, b \in ParserTxs}

is_potential_target_users_only(tx, filter_config) ==
    \/ tx.from \in filter_config.addresses
    \/ IsSome(tx.to) /\ Unwrap(tx.to) \in filter_config.addresses

\* infrastructure/parser/parser.rs:36-38
is_potential_target(tx, filter_config) ==
    \/ tx.from \in filter_config.addresses
    \/ IsSome(tx.to) /\ Unwrap(tx.to) \in filter_config.addresses
    \/ IsSome(tx.to) /\ Unwrap(tx.to) \in filter_config.contracts

\* infrastructure/parser/parser.rs:30-75 the loop over block.transactions, from
\* transaction i on: the transfers, the skipped count, and the hashes given to
\* get_transaction_receipt
RECURSIVE ParseFrom(_, _, _, _, _, _)
ParseFrom(block, outcome, i, block_number, block_timestamp, filter_config) ==
    IF i > Len(block.transactions)
    THEN [transfers |-> <<>>, skipped_count |-> 0, requested |-> <<>>]
    ELSE LET tx == block.transactions[i]
             receipt == block.receipts[i]
             rest == ParseFrom(block, outcome, i + 1, block_number, block_timestamp,
                               filter_config)
             skip == [rest EXCEPT !.skipped_count = @ + 1]
             asked == [rest EXCEPT !.requested = <<tx.hash>> \o @]
         IN  IF ~is_target_transaction(tx) THEN skip
             ELSE IF ~is_potential_target(tx, filter_config) THEN skip
             ELSE IF outcome[i] # "some" THEN [asked EXCEPT !.skipped_count = @ + 1]
             ELSE IF ~ReceiptSuccessful(receipt) THEN [asked EXCEPT !.skipped_count = @ + 1]
             ELSE [asked EXCEPT !.transfers =
                      process_transaction(tx, receipt, block_number, block_timestamp,
                                          filter_config) \o @]

\* infrastructure/parser/parser.rs parse_transfers_from_block
parse_transfers_from_block(block, outcome, block_number, block_timestamp, filter_config) ==
    ParseFrom(block, outcome, 1, block_number, block_timestamp, filter_config)

\* a block of the chain with one of the transaction lists, and a snapshot
ParserInit ==
    /\ \E body \in ParserBodies, f \in 1..Len(FilterSnapshots) :
          parse_call = Some([block |-> NetBlock(0, [h \in Heights |-> 0], TRUE,
                                                CHOOSE n \in BlockNumerics : IsSome(n.base_fee_per_gas),
                                                body),
                             filter_config |-> FilterSnapshots[f]])
    /\ parse_outcome = <<>>
    /\ parse_result = None

\* the call, with the answers of get_transaction_receipt
ParseTransfers ==
    /\ parse_result = None
    /\ LET block == Unwrap(parse_call).block
           block_number == option_u64_to_i64(block.number).val
           block_timestamp == u256_to_i64(block.timestamp).val
       IN  \E outcome \in [1..Len(block.transactions) -> ReceiptOutcomes] :
              /\ parse_outcome' = outcome
              /\ parse_result' = Some(parse_transfers_from_block(
                                         block, outcome, block_number, block_timestamp,
                                         Unwrap(parse_call).filter_config))
    /\ UNCHANGED <<sync_vars, process_vars, nonce_vars, registry_vars, retry_vars, pool_vars, parse_call>>

ParserNext == ParseTransfers

\* One call of the extractor.
ParserSpecInit ==
    /\ SyncIdle
    /\ ProcessIdle
    /\ NonceIdle
    /\ RetryIdle
    /\ PoolIdle
    /\ RegistryIdle
    /\ ParserInit

ParserSpec == ParserSpecInit /\ [][ParserNext]_vars

\* ===================================================== indexing with reloads
\* The sync engine with the extractor of parser.rs run, block by block,
\* against the snapshot the registry publishes at that time, while the watcher
\* replaces the snapshot.
IndexBodies == { <<NativeOk>>, <<NativeToU2, Erc20Ok>> }

IndexFetchBlock == FetchBlockFrom(IndexBodies)

\* the extractor on block_data under the snapshot loaded for this block
IndexExtract(outcome) ==
    LET new_block == NewBlock(Unwrap(block_data)).val
    IN  parse_transfers_from_block(Unwrap(block_data), outcome, new_block.block_number,
                                   new_block.timestamp, ArcSwapLoad(FilterSnapshots[filter]))

\* process_and_save_block after the block row: the extractor, then batch_save
ParseAndSave ==
    /\ pc = "extract"
    /\ \E outcome \in [1..Len(Unwrap(block_data).transactions) -> ReceiptOutcomes] :
          /\ receipt_outcome' = outcome
          /\ processed_transfers' = IndexExtract(outcome).transfers
          /\ skipped_tx_count' = IndexExtract(outcome).skipped_count
    /\ eth_transfer' = batch_save(eth_transfer, processed_transfers')
    /\ AfterBlock
    /\ UNCHANGED <<aux, config, net, filter, eth_block, current_net_block, max_safe_block,
                   fetched, block_data>>

\* the same, batch_save returning an error
ParseAndSaveFails ==
    /\ pc = "extract"
    /\ \E outcome \in [1..Len(Unwrap(block_data).transactions) -> ReceiptOutcomes] :
          /\ receipt_outcome' = outcome
          /\ processed_transfers' = IndexExtract(outcome).transfers
          /\ skipped_tx_count' = IndexExtract(outcome).skipped_count
    /\ processed_transfers' # <<>>
    /\ Return("err_database")
    /\ UNCHANGED <<aux, config, net, filter, db, pass, fetched, block_data>>

IndexInit ==
    /\ Init
    /\ config = [init_height |-> 0, delay |-> 0]

IndexNext ==
    \/ NetAdvance
    \/ FilterReload
    \/ Wake
    \/ SyncHeadFails
    \/ SyncLastBlockFails
    \/ SyncStart
    \/ LoopExit
    \/ FetchNone
    \/ FetchErr
    \/ IndexFetchBlock
    \/ ConvertFails
    \/ SaveBlockFails
    \/ SaveBlock
    \/ ParseAndSave
    \/ ParseAndSaveFails

IndexSpec == IndexInit /\ [][IndexNext]_vars

\* ================================================ headers out of range
\* A node that reports header numbers at and over the limits of the
\* conversions, and a block with 2^31 transactions.
OverflowNumerics ==
    LET ordinary == [gas_used |-> U256FromNat(21000), base_fee_per_gas |-> Some(U256FromNat(7)),
                     timestamp |-> U256FromNat(1700)]
    IN  { ordinary,
          [ordinary EXCEPT !.gas_used = U256TwoPow63],
          [ordinary EXCEPT !.gas_used = U256TwoPow128],
          [ordinary EXCEPT !.base_fee_per_gas = Some(U256TwoPow63)],
          [ordinary EXCEPT !.base_fee_per_gas = Some(U256TwoPow128)],
          [ordinary EXCEPT !.base_fee_per_gas = None],
          [ordinary EXCEPT !.timestamp = U256TwoPow63],
          [ordinary EXCEPT !.timestamp = U256TwoPow128] }

OverflowBlocks ==
    LET block(numerics) == NetBlock(next_block, fork, TRUE, numerics, <<NativeOk>>)
    IN  { block(numerics) : numerics \in OverflowNumerics }
        \cup { [block(numerics) EXCEPT !.transactions_len = VecLenTwoPow31] :
                  numerics \in { n \in OverflowNumerics : NewBlock(block(n)).ok } }

FetchOverflowBlock == FetchBlockIn(OverflowBlocks)

OverflowInit ==
    /\ Init
    /\ config = [init_height |-> 0, delay |-> 0]

OverflowNext ==
    \/ NetAdvance
    \/ Wake
    \/ SyncHeadFails
    \/ SyncLastBlockFails
    \/ SyncStart
    \/ LoopExit
    \/ FetchNone
    \/ FetchErr
    \/ FetchOverflowBlock
    \/ ConvertFails
    \/ SaveBlockFails
    \/ SaveBlock
    \/ SaveTransfers
    \/ SaveTransfersFails

OverflowSpec == OverflowInit /\ [][OverflowNext]_vars

\* ====================================================== a chain above 1000
\* The sync engine started on an empty store with ethereum.init_height = 1000
\* and ethereum.delay = 12, against a network whose head stands at 1020.
CursorInit ==
    /\ config = [init_height |-> 1000, delay |-> 12]
    /\ net_head = 1020
    /\ fork = [h \in 0..(net_head + 1) |-> 0]
    /\ reorgs = 0
    /\ filter = 1
    /\ eth_block = <<>>
    /\ eth_transfer = <<>>
    /\ pc = "call"
    /\ current_net_block = 0
    /\ max_safe_block = 0
    /\ local_block = None
    /\ next_block = 0
    /\ fetched = "nothing"
    /\ block_data = None
    /\ receipt_outcome = <<>>
    /\ processed_transfers = <<>>
    /\ skipped_tx_count = 0
    /\ result = "none"
    /\ pass_error = None
    /\ sleep_secs = 0
    /\ RetryIdle
    /\ PoolIdle
    /\ RegistryIdle
    /\ ParserIdle
    /\ ProcessIdle
    /\ NonceIdle

CursorNext ==
    \/ Wake
    \/ SyncHeadFails
    \/ SyncLastBlockFails
    \/ SyncStart
    \/ LoopExit
    \/ FetchNone
    \/ FetchErr
    \/ FetchOneTransferBlock
    \/ ConvertFails
    \/ SaveBlockFails
    \/ SaveBlock
    \/ SaveTransfers
    \/ SaveTransfersFails

CursorSpec == CursorInit /\ [][CursorNext]_vars

\* ============================================================ the supervisor
\* startup/startup.rs:67-111 run(): tokio::join! of the loop that calls
\* sync_blocks, and after the join the wait for ctrl_c. The loop has no break
\* and the pass no panic path in the model, so the join does not complete and
\* the wait of line 108 is not reached: no handler for SIGINT is installed
\* while the loop runs, and the signal ends the process where it stands.
Sigint ==
    /\ pc # "killed"
    /\ sigint' = TRUE
    /\ pc' = "killed"
    /\ sleep_secs' = 0
    /\ NoPass
    /\ NoWork
    /\ UNCHANGED <<retry_vars, pool_vars, registry_vars, parser_vars, nonce_vars, config, net, filter,
                   db>>

SupervisorInit ==
    /\ Init
    /\ config = [init_height |-> 0, delay |-> 0]

SupervisorNext ==
    \/ NetAdvance
    \/ NetReorg
    \/ Wake
    \/ SyncHeadFails
    \/ SyncLastBlockFails
    \/ SyncStart
    \/ LoopExit
    \/ FetchNone
    \/ FetchErr
    \/ FetchOneTransferBlock
    \/ ConvertFails
    \/ SaveBlockFails
    \/ SaveBlock
    \/ SaveTransfers
    \/ SaveTransfersFails
    \/ Sigint

\* The supervisor and the signal; a sleep of the supervisor ends.
SupervisorSpec == SupervisorInit /\ [][SupervisorNext]_vars /\ WF_vars(Wake)

\* ============================================== the engine on a sound chain
\* The engine on a chain that does not reorganise, whose blocks carry their
\* hash and header numbers within range. Calls of the node may fail; the
\* writes to the store succeed.
SoundBlocks ==
    { b \in { NetBlock(next_block, fork, TRUE, numerics, body) :
                 numerics \in BlockNumerics, body \in OneTransferBodies } :
        NewBlock(b).ok }

FetchSoundBlock == FetchBlockIn(SoundBlocks)

ProgressNext ==
    \/ NetAdvance
    \/ Wake
    \/ SyncHeadFails
    \/ SyncStart
    \/ LoopExit
    \/ FetchNone
    \/ FetchErr
    \/ FetchSoundBlock
    \/ SaveBlock
    \/ SaveTransfers

\* A sleep of the supervisor ends and the task of the pass is scheduled; the
\* read of the head and the fetch of a block succeed in the end.
ProgressFairness ==
    /\ WF_vars(Wake)
    /\ SF_vars(SyncStart)
    /\ WF_vars(LoopExit)
    /\ SF_vars(FetchSoundBlock)
    /\ WF_vars(SaveBlock)
    /\ WF_vars(SaveTransfers)

ProgressSpec == Init /\ [][ProgressNext]_vars /\ ProgressFairness

\* ==================================================== the transaction sender
\* A u64 is kept as the integer congruent to it modulo 2^64 in the range
\* -2^63 .. 2^63 - 1: the wrapping fetch_add and fetch_sub are + 1 and - 1, and
\* u64::MAX is -1. The order of u64 puts the negative representatives last.
U64Gt(a, b) == IF (a < 0) = (b < 0) THEN a > b ELSE a < 0

\* nonce_service.rs:40-41 current_nonce.fetch_add(1, SeqCst): the new value
NonceFetchAdd(n) == n + 1

\* nonce_service.rs:46 current_nonce.fetch_sub(1, SeqCst): the new value
NonceFetchSub(n) == n - 1

\* nonce_service.rs:62 if new_nonce > current
StoreWanted(new_nonce, loaded) == U64Gt(new_nonce, loaded)

Callers == 1..MaxCallers

\* the transaction count of the wallet when the service is created
InitialCounts == {0, 5}

\* nonce_service.rs:25-36 NonceService::new: the counter starts at the
\* transaction count of the account; no call of execute has begun
NonceInit ==
    /\ \E n \in InitialCounts :
          /\ current_nonce = n
          /\ chain = [nonce |-> n, pending |-> {}, seen |-> {},
                       receipts |-> [c \in Callers |-> None]]
    /\ nonce_sync = [pc |-> "idle", new_nonce |-> 0, current |-> 0]
    /\ calls = [c \in Callers |-> [pc |-> "start", nonce |-> 0]]

SenderFrame == <<sync_vars, process_vars, retry_vars, pool_vars, registry_vars, parser_vars>>

\* tx_service.rs: the call c fails with its error after self.nonce_svc.rollback()
RollbackAndFail(c) ==
    /\ current_nonce' = NonceFetchSub(current_nonce)
    /\ calls' = [calls EXCEPT ![c].pc = "err"]

\* tx_service.rs:108-114 the simulation or the fee resolution fails: `?`
PreflightFails(c) ==
    /\ calls[c].pc = "start"
    /\ calls' = [calls EXCEPT ![c].pc = "err"]
    /\ UNCHANGED <<SenderFrame, current_nonce, nonce_sync, chain>>

\* tx_service.rs:107-117 simulation, fees, then nonce_svc.acquire()
Acquire(c) ==
    /\ calls[c].pc = "start"
    /\ calls' = [calls EXCEPT ![c] = [pc |-> "acquired", nonce |-> current_nonce]]
    /\ current_nonce' = NonceFetchAdd(current_nonce)
    /\ UNCHANGED <<SenderFrame, nonce_sync, chain>>

\* tx_service.rs:133-140 estimate_gas returns the estimate
EstimateGas(c) ==
    /\ calls[c].pc = "acquired"
    /\ calls' = [calls EXCEPT ![c].pc = "estimated"]
    /\ UNCHANGED <<SenderFrame, current_nonce, nonce_sync, chain>>

\* tx_service.rs:133-140 estimate_gas fails
EstimateGasFails(c) ==
    /\ calls[c].pc = "acquired"
    /\ RollbackAndFail(c)
    /\ UNCHANGED <<SenderFrame, nonce_sync, chain>>

\* tx_service.rs:146-152 sign_tx returns the signature
Sign(c) ==
    /\ calls[c].pc = "estimated"
    /\ calls' = [calls EXCEPT ![c].pc = "signed"]
    /\ UNCHANGED <<SenderFrame, current_nonce, nonce_sync, chain>>

\* tx_service.rs:148-151 sign_tx fails
SignFails(c) ==
    /\ calls[c].pc = "estimated"
    /\ RollbackAndFail(c)
    /\ UNCHANGED <<SenderFrame, nonce_sync, chain>>

\* the node takes a transaction whose nonce is not below the count of the
\* account and is not the nonce of a pending transaction of the account
Accepts(c) ==
    /\ ~U64Gt(chain.nonce, calls[c].nonce)
    /\ \A d \in chain.pending : calls[d].nonce # calls[c].nonce

\* tx_service.rs:155-162, ethereum_provider.rs:143-146 the node takes the
\* signed transaction; the call waits for its confirmations
Broadcast(c) ==
    /\ calls[c].pc = "signed"
    /\ Accepts(c)
    /\ calls' = [calls EXCEPT ![c].pc = "sent"]
    /\ chain' = [chain EXCEPT !.pending = @ \cup {c}, !.seen = @ \cup {c}]
    /\ UNCHANGED <<SenderFrame, current_nonce, nonce_sync>>

\* the node takes a transaction that has the nonce of a pending transaction of
\* the account and pays more for it: it takes the place of the pending one.
\* gas_service resolves the fees of each call from the network at its time.
BroadcastReplaces(c) ==
    /\ calls[c].pc = "signed"
    /\ ~U64Gt(chain.nonce, calls[c].nonce)
    /\ \E d \in chain.pending :
          /\ calls[d].nonce = calls[c].nonce
          /\ chain' = [chain EXCEPT !.pending = (@ \ {d}) \cup {c}, !.seen = @ \cup {c}]
    /\ calls' = [calls EXCEPT ![c].pc = "sent"]
    /\ UNCHANGED <<SenderFrame, current_nonce, nonce_sync>>

\* ethereum_provider.rs:143-146 the broadcast fails: the transport, a nonce
\* too low, a replacement of a pending transaction
BroadcastFails(c) ==
    /\ calls[c].pc = "signed"
    /\ RollbackAndFail(c)
    /\ UNCHANGED <<SenderFrame, nonce_sync, chain>>

\* the chain includes the pending transaction whose nonce is the count of the
\* account; its execution succeeds (status 1) or reverts (status 0)
Mine ==
    /\ \E c \in chain.pending, status \in {0, 1} :
          /\ calls[c].nonce = chain.nonce
          /\ chain' = [nonce |-> chain.nonce + 1,
                       pending |-> chain.pending \ {c},
                       seen |-> chain.seen,
                       receipts |-> [chain.receipts EXCEPT ![c] = Some(status)]]
    /\ UNCHANGED <<SenderFrame, current_nonce, nonce_sync, calls>>

\* tx_service.rs:155-181 send_raw_transaction returns the receipt: Ok
Confirmed(c) ==
    /\ calls[c].pc = "sent"
    /\ chain.receipts[c] = Some(1)
    /\ calls' = [calls EXCEPT ![c].pc = "ok"]
    /\ UNCHANGED <<SenderFrame, current_nonce, nonce_sync, chain>>

\* ethereum_provider.rs:159-168 the receipt has status 0: an error
Reverted(c) ==
    /\ calls[c].pc = "sent"
    /\ chain.receipts[c] = Some(0)
    /\ RollbackAndFail(c)
    /\ UNCHANGED <<SenderFrame, nonce_sync, chain>>

\* ethereum_provider.rs:149-157 the confirmations do not come in time, or the
\* wait fails; the transaction stays with the node
ConfirmationTimeout(c) ==
    /\ calls[c].pc = "sent"
    /\ chain.receipts[c] = None
    /\ RollbackAndFail(c)
    /\ UNCHANGED <<SenderFrame, nonce_sync, chain>>

\* nonce_service.rs:52-59 sync takes sync_lock and reads the transaction
\* count of the account
NonceSyncRead ==
    /\ nonce_sync.pc = "idle"
    /\ nonce_sync' = [pc |-> "read", new_nonce |-> chain.nonce, current |-> 0]
    /\ UNCHANGED <<SenderFrame, current_nonce, calls, chain>>

\* nonce_service.rs:60 current_nonce.load(SeqCst)
NonceSyncLoad ==
    /\ nonce_sync.pc = "read"
    /\ nonce_sync' = [nonce_sync EXCEPT !.pc = "loaded", !.current = current_nonce]
    /\ UNCHANGED <<SenderFrame, current_nonce, calls, chain>>

\* nonce_service.rs:62-66 the comparison, the store, the lock released
NonceSyncStore ==
    /\ nonce_sync.pc = "loaded"
    /\ current_nonce' = IF StoreWanted(nonce_sync.new_nonce, nonce_sync.current)
                        THEN nonce_sync.new_nonce
                        ELSE current_nonce
    /\ nonce_sync' = [pc |-> "idle", new_nonce |-> 0, current |-> 0]
    /\ UNCHANGED <<SenderFrame, calls, chain>>

Execute ==
    \E c \in Callers :
        \/ PreflightFails(c)
        \/ Acquire(c)
        \/ EstimateGas(c)
        \/ EstimateGasFails(c)
        \/ Sign(c)
        \/ SignFails(c)
        \/ Broadcast(c)
        \/ BroadcastReplaces(c)
        \/ BroadcastFails(c)
        \/ Confirmed(c)
        \/ Reverted(c)
        \/ ConfirmationTimeout(c)

NonceSync ==
    \/ NonceSyncRead
    \/ NonceSyncLoad
    \/ NonceSyncStore

NonceNext ==
    \/ Execute
    \/ Mine
    \/ NonceSync

\* Concurrent calls of execute and a task that calls sync, on one wallet.
NonceSpecInit ==
    /\ SyncIdle
    /\ ProcessIdle
    /\ RetryIdle
    /\ PoolIdle
    /\ RegistryIdle
    /\ ParserIdle
    /\ NonceInit

NonceSpec == NonceSpecInit /\ [][NonceNext]_vars

\* ================================================================ claims
LastRow(rows) == rows[Len(rows)]
RowPersisted(n) == \E i \in 1..Len(eth_block) : eth_block[i].block_number = n
KeyPersisted(t) ==
    \E i \in 1..Len(eth_transfer) :
        eth_transfer[i].tx_hash = t.tx_hash /\ eth_transfer[i].log_index = t.log_index

\* C1: block commits occur in ascending height order with step exactly 1,
\* starting at init_height: every step leaves eth_block as it is or appends one
\* row, whose height is init_height when the relation was empty and the height
\* of the last committed row plus 1 otherwise; so no height is committed twice
\* and N+1 is never committed before N.
C1_CommitOrder ==
    [][ \/ eth_block' = eth_block
        \/ /\ Len(eth_block') = Len(eth_block) + 1
           /\ SubSeq(eth_block', 1, Len(eth_block)) = eth_block
           /\ LastRow(eth_block').block_number =
                 IF eth_block = <<>> THEN config.init_height
                 ELSE LastRow(eth_block).block_number + 1 ]_vars

\* three heights committed, the last one after the network reorganised
C1_Witness == Len(eth_block) = 3 /\ reorgs = 1

\* C2 (I2): if heights H1 < H2 are persisted, every height between them is.
C2_NoHeightGap ==
    \A i, j \in 1..Len(eth_block) :
        \A h \in Heights :
            (eth_block[i].block_number < h /\ h < eth_block[j].block_number)
                => RowPersisted(h)

\* heights 0 and 2 persisted, with 1 between them
C2_Witness == RowPersisted(0) /\ RowPersisted(1) /\ RowPersisted(2)

\* C3 (I1): for persisted blocks at heights H and H+1, the persisted parent
\* hash of H+1 is the persisted block hash of H.
C3_ParentHashContinuity ==
    \A i, j \in 1..Len(eth_block) :
        eth_block[j].block_number = eth_block[i].block_number + 1
            => eth_block[j].parent_hash = eth_block[i].block_hash

\* H committed on the first fork and H+1, after a reorganisation above H, on
\* the second
C3_Witness ==
    /\ Len(eth_block) >= 2
    /\ LastRow(eth_block).block_hash =
          HexString(<<LastRow(eth_block).block_number, 1>>)
    /\ eth_block[Len(eth_block) - 1].block_hash =
          HexString(<<LastRow(eth_block).block_number - 1, 0>>)

\* C4: at the end of a pass the block row and the transfers of the block the
\* pass was processing are persisted together or not at all, and a failure of
\* the pass while processing the block leaves nothing of it.
C4_Either ==
    /\ RowPersisted(Unwrap(Unwrap(block_data).number))
    /\ \A k \in 1..Len(processed_transfers) : KeyPersisted(processed_transfers[k])
C4_Neither ==
    /\ ~RowPersisted(Unwrap(Unwrap(block_data).number))
    /\ \A i \in 1..Len(eth_transfer) :
          eth_transfer[i].block_number # Unwrap(Unwrap(block_data).number)
C4_AtomicBlock ==
    (pc = "sleep" /\ IsSome(block_data)) =>
        /\ C4_Either \/ C4_Neither
        /\ result # "ok" => C4_Neither

\* C5: a fetched block whose parent hash differs from the hash of the previous
\* block ends the pass with the reorg error in that step, and the step leaves
\* both relations as they were. (The step that leaves the loop with a block
\* in block_data is the fetch of that block.)
C5_ReorgGuard ==
    [][ ( /\ pc = "loop"
          /\ pc' # "loop"
          /\ IsSome(block_data')
          /\ IsSome(local_block)
          /\ Unwrap(block_data').parent_hash # Unwrap(local_block).block_hash )
        => ( /\ pc' = "sleep"
             /\ result' = "err_reorg"
             /\ eth_block' = eth_block
             /\ eth_transfer' = eth_transfer ) ]_vars

\* the reorg error with a block persisted before it
C5_Witness ==
    /\ pc = "sleep"
    /\ result = "err_reorg"
    /\ eth_block # <<>>
    /\ h256_to_string(Unwrap(block_data).parent_hash) # LastRow(eth_block).block_hash

\* C6: a pass never commits a block above safe = max(H - delay, 0), H being the
\* head height the pass read at its start: every step that appends a block row
\* appends a height of at most that value.
C6_SafeDepth ==
    [][ Len(eth_block') > Len(eth_block)
        => LastRow(eth_block').block_number <=
              (IF current_net_block - config.delay < 0 THEN 0
               ELSE current_net_block - config.delay) ]_vars

\* a block committed by a pass whose head is below the delay: safe is 0
C6_Witness ==
    /\ pc = "loop"
    /\ IsSome(block_data)
    /\ RowPersisted(0)
    /\ config.delay > current_net_block
    /\ current_net_block > 0

\* C7 (I3): no two persisted transfers share (tx_hash, log_index), no two
\* persisted blocks share a height, and inserting a row that collides with a
\* persisted one on these keys leaves the relation as it is.
C7_UniqueKeys ==
    /\ \A i, j \in 1..Len(eth_transfer) :
          (eth_transfer[i].tx_hash = eth_transfer[j].tx_hash
             /\ eth_transfer[i].log_index = eth_transfer[j].log_index) => i = j
    /\ \A i, j \in 1..Len(eth_block) :
          eth_block[i].block_number = eth_block[j].block_number => i = j
    /\ \A i \in 1..Len(eth_transfer) :
          InsertTransfer(eth_transfer, [eth_transfer[i] EXCEPT !.status = 0]) = eth_transfer
    /\ \A i \in 1..Len(eth_block) :
          InsertBlock(eth_block, [eth_block[i] EXCEPT !.block_hash = EmptyString]) = eth_block

\* a batch of two transfers with the same key has been saved: one row
C7_Witness ==
    /\ pc = "loop"
    /\ Len(processed_transfers) = 2
    /\ processed_transfers[1].tx_hash = processed_transfers[2].tx_hash
    /\ processed_transfers[1].log_index = processed_transfers[2].log_index
    /\ KeyPersisted(processed_transfers[1])

\* C8 (I4): the block_number of every persisted transfer is the height of a
\* persisted block.
C8_ReferentialIntegrity ==
    \A i \in 1..Len(eth_transfer) : RowPersisted(eth_transfer[i].block_number)

\* transfers persisted, and a later pass failed in the middle of its block
C8_Witness ==
    /\ eth_transfer # <<>>
    /\ pc = "sleep"
    /\ result = "err_database"
    /\ processed_transfers # <<>>

\* C9 (I5): every persisted transfer has status 1, and no persisted transfer of
\* the block just processed comes from a transaction whose receipt was missing,
\* failed to be fetched, or has a status other than 1.
C9_StatusOne ==
    /\ \A i \in 1..Len(eth_transfer) : eth_transfer[i].status = 1
    /\ (IsSome(block_data) /\ receipt_outcome # <<>>) =>
          \A k \in 1..Len(Unwrap(block_data).transactions) :
              ( \/ receipt_outcome[k] # "some"
                \/ Unwrap(block_data).receipts[k].status # Some(1) )
              => \A i \in 1..Len(eth_transfer) :
                    eth_transfer[i].tx_hash # HexString(Unwrap(block_data).transactions[k].hash)

\* a block committed with one transaction skipped for its receipt and a
\* transfer of another transaction persisted
C9_Witness ==
    /\ pc = "loop"
    /\ IsSome(block_data)
    /\ skipped_tx_count >= 1
    /\ \E k \in 1..Len(receipt_outcome) :
          /\ receipt_outcome[k] = "some"
          /\ Unwrap(block_data).receipts[k].status = Some(0)
    /\ \E i \in 1..Len(eth_transfer) :
          eth_transfer[i].block_number = Unwrap(Unwrap(block_data).number)

\* C10: persisting the block just persisted a second time (the same block row,
\* the same transfer rows) leaves both relations as they are.
C10_Persisted ==
    /\ IsSome(block_data)
    /\ \/ pc = "loop"
       \/ pc = "sleep" /\ result = "err_missing_hash"
C10_IdempotentReplay ==
    C10_Persisted =>
        /\ InsertBlock(eth_block, NewBlock(Unwrap(block_data)).val) = eth_block
        /\ batch_save(eth_transfer, processed_transfers) = eth_transfer

\* a block with transfers has been persisted
C10_Witness ==
    /\ C10_Persisted
    /\ processed_transfers # <<>>
    /\ Len(eth_block) >= 2
RECURSIVE SumSeq(_)
SumSeq(q) == IF q = <<>> THEN 0 ELSE Head(q) + SumSeq(Tail(q))

\* C11: one call through the retry layer makes at most max_retries RPC
\* attempts; when it has returned Ok, the value is the one of its last
\* attempt, every attempt before that one failed, and it slept once between
\* two attempts and not after the last; when it has returned an error, it made
\* exactly max_retries attempts and all of them failed.
C11_BoundedRetry ==
    /\ Len(rpc_log) <= retry_config.max_retries
    /\ retry_pc = "done" =>
          LET r == Unwrap(retry_result)
              n == Len(rpc_log)
          IN  IF r.ok
              THEN /\ n >= 1
                   /\ rpc_log[n] = r
                   /\ r.val \in RpcValues
                   /\ \A j \in 1..(n - 1) : ~rpc_log[j].ok
                   /\ Len(sleep_log) = n - 1
              ELSE /\ n = retry_config.max_retries
                   /\ \A j \in 1..n : ~rpc_log[j].ok

\* Ok(None) returned by the third attempt of a call allowed thirteen
C11_Witness ==
    /\ retry_pc = "done"
    /\ retry_result = Some(Ok("none"))
    /\ Len(rpc_log) = 3
    /\ retry_config.max_retries = 13

\* C12: no sleep precedes the first attempt; the k-th sleep of a call, between
\* attempts k and k+1, lasts d_k + jitter milliseconds with
\* d_k = base_delay * 2^min(k-1, 10) and 0 <= jitter <= d_k / 10; and while
\* k - 1 < 10 the sum of the first k sleeps lies between base * (2^k - 1) and
\* 1.1 * base * (2^k - 1).
C12_BackoffFormula ==
    [][ Len(sleep_log') = Len(sleep_log) + 1 =>
          LET k == Len(sleep_log')
              base == retry_config.base_delay_secs * 1000
              d == base * Pow2(Min(k - 1, 10))
              jitter == sleep_log'[k] - d
              total == SumSeq(sleep_log')
          IN  /\ Len(rpc_log) = k
              /\ 0 <= jitter
              /\ 10 * jitter <= d
              /\ k - 1 < 10 =>
                    /\ base * (Pow2(k) - 1) <= total
                    /\ 10 * total <= 11 * base * (Pow2(k) - 1) ]_vars

\* C13: a call that ran out of attempts returns one error, which names the
\* transport error of its last attempt and of no earlier attempt (and no
\* transport error when it was allowed no attempt).
C13_LastErrorNamed ==
    (retry_pc = "done" /\ ~Unwrap(retry_result).ok) =>
        LET e == Unwrap(retry_result).val
            n == Len(rpc_log)
        IN  /\ e.kind = "ProviderError"
            /\ e.retries = retry_config.max_retries
            /\ e.last_error = IF n = 0 THEN None ELSE Some(rpc_log[n].val)
            /\ \A j \in 1..(n - 1) : e.last_error # Some(rpc_log[j].val)

\* three attempts allowed, three failed
C13_Witness ==
    /\ retry_pc = "done"
    /\ ~Unwrap(retry_result).ok
    /\ Len(rpc_log) = 3
    /\ Unwrap(retry_result).val.last_error = Some(TransportError(2))
\* the endpoint a pick selects: the handle it returned, or the one its value of
\* the counter stands for while the pick has not returned
SelectedBy(pick) ==
    IF IsSome(pick.handle) THEN Unwrap(pick.handle) ELSE provider_at(pick.i, pool.len)

\* C14 as stated: with a single caller, each pick returns the handle after the
\* one of the pick before, modulo the pool size, for every value of the
\* counter; the first pick of a fresh pool returns handle 0.
C14_RoundRobinAnyCounter ==
    pool.callers = 1 =>
        /\ (pool.fresh /\ picks # <<>> /\ IsSome(picks[1].handle)) => picks[1].handle = Some(0)
        /\ \A j \in 1..(Len(picks) - 1) :
              IsSome(picks[j + 1].handle) =>
                  Unwrap(picks[j + 1].handle) = (Unwrap(picks[j].handle) + 1) % pool.len

\* the pool size divides 2^64
DividesWrap(len) == provider_at(UsizeMax, len) = len - 1

\* C14 amended: the same, for every pair of consecutive picks of which the
\* first did not take the last value of the counter (usize::MAX), and for every
\* pair when the pool size divides 2^64.
C14_RoundRobin ==
    pool.callers = 1 =>
        /\ (pool.fresh /\ picks # <<>> /\ IsSome(picks[1].handle)) => picks[1].handle = Some(0)
        /\ \A j \in 1..(Len(picks) - 1) :
              (IsSome(picks[j + 1].handle) /\ (picks[j].i # UsizeMax \/ DividesWrap(pool.len))) =>
                  Unwrap(picks[j + 1].handle) = (Unwrap(picks[j].handle) + 1) % pool.len

\* four picks of a single caller from a pool of three, across the wrap of the
\* counter
C14_Witness ==
    /\ pool.callers = 1
    /\ pool.len = 3
    /\ ~pool.fresh
    /\ Len(picks) = 4
    /\ IsSome(picks[4].handle)

\* C15 as stated: under any interleaving, no two picks take the same value of
\* the counter, and whenever N*m picks from a fresh pool of N endpoints have
\* returned, each endpoint has been returned by exactly m of them.
C15_CompletedPicksBalanced ==
    /\ \A j, k \in 1..Len(picks) : picks[j].i = picks[k].i => j = k
    /\ \A m \in 1..MaxPicks :
          LET done == {j \in 1..Len(picks) : IsSome(picks[j].handle)}
          IN  (pool.fresh /\ Cardinality(done) = pool.len * m) =>
                  \A e \in 0..(pool.len - 1) :
                      Cardinality({j \in done : picks[j].handle = Some(e)}) = m

\* C15 amended: under any interleaving, no two picks take the same value of the
\* counter, and once N*m picks have taken their value from a fresh pool of N
\* endpoints, each endpoint has been selected by exactly m of them, the picks
\* that have not returned yet counted with the endpoint their value stands for.
C15_Linearizable ==
    /\ \A j, k \in 1..Len(picks) : picks[j].i = picks[k].i => j = k
    /\ \A m \in 1..MaxPicks :
          (pool.fresh /\ Len(picks) = pool.len * m) =>
              \A e \in 0..(pool.len - 1) :
                  Cardinality({j \in 1..Len(picks) : SelectedBy(picks[j]) = e}) = m

\* four picks from a pool of two by two callers, the first pick still on its way
\* while the other caller has picked three times
C15_Witness ==
    /\ pool.callers = 2
    /\ pool.len = 2
    /\ pool.fresh
    /\ Len(picks) = 4
    /\ picks[1].caller = 1 /\ picks[2].caller = 2 /\ picks[3].caller = 2 /\ picks[4].caller = 2
    /\ IsSome(picks[2].handle) /\ IsSome(picks[3].handle) /\ picks[1].handle = None
\* C16: a load() that starts after n stores of the watcher have returned gives
\* the snapshot published by the n-th store or by a later one, and every load
\* of a reader gives a snapshot at least as recent as the reader's load before.
C16_MonotonePublication ==
    /\ [](IsSome(held) => Unwrap(held).snapshot.gen >= Unwrap(held).after)
    /\ [][ (IsSome(held) /\ IsSome(held')) =>
              Unwrap(held').snapshot.gen >= Unwrap(held).snapshot.gen ]_vars

\* a reader loaded after the second store and holds its snapshot
C16_Witness ==
    /\ IsSome(held)
    /\ Unwrap(held).after = 2
    /\ Unwrap(held).snapshot.gen = 2

\* C17: the contracts and the addresses of every snapshot a reader got from
\* load() are what the two files held together at one point in time.
C17_SnapshotConsistent ==
    IsSome(held) =>
        \E fs \in file_states :
            /\ fs[1].readable /\ fs[2].readable
            /\ Unwrap(held).snapshot.contracts = load_file(fs[1])
            /\ Unwrap(held).snapshot.addresses = load_file(fs[2])
\* the three conditions of the pre-filter, on the fields of the transaction
C19_Qualifies(tx, f) ==
    /\ IsSome(tx.to)
    /\ \/ tx.input = "empty" /\ ~U256IsZero(tx.value)
       \/ tx.input = "transfer" /\ U256IsZero(tx.value)
    /\ \/ tx.from \in f.addresses
       \/ Unwrap(tx.to) \in f.addresses
       \/ Unwrap(tx.to) \in f.contracts

\* C19: the extractor requests the receipt of a transaction of the block, once,
\* if and only if its `to` is set, it is a native transfer (empty input, value
\* above 0) or a call of transfer(address,uint256) with value 0, and its
\* sender or recipient is a watched user or its recipient a watched contract;
\* it requests no receipt for any other transaction.
C19_PrefilterGatesReceipt ==
    IsSome(parse_result) =>
        LET block == Unwrap(parse_call).block
            requested == Unwrap(parse_result).requested
        IN  \A k \in 1..Len(block.transactions) :
                Cardinality({j \in 1..Len(requested) :
                                requested[j] = block.transactions[k].hash})
                  = IF C19_Qualifies(block.transactions[k], Unwrap(parse_call).filter_config)
                    THEN 1 ELSE 0

\* a block of two transfers: one between unwatched users, for which no receipt
\* is requested, and one to a watched contract, for which one is
C19_Witness ==
    /\ IsSome(parse_result)
    /\ Len(Unwrap(parse_call).block.transactions) = 2
    /\ Unwrap(parse_call).block.transactions[1].from = "x"
    /\ Unwrap(parse_call).block.transactions[1].to = Some("y")
    /\ Unwrap(parse_call).block.transactions[2].from = "x"
    /\ Unwrap(parse_call).block.transactions[2].to = Some("k1")
    /\ Unwrap(parse_result).requested = <<Unwrap(parse_call).block.transactions[2].hash>>
\* the transfer touches what the snapshot watches: a watched user, and for a
\* token transfer a watched contract too
Touches(t, f) ==
    /\ \E a \in f.addresses : t.from_address = HexString(a) \/ t.to_address = HexString(a)
    /\ t.contract_address # None =>
          \E k \in f.contracts : t.contract_address = Some(HexString(k))

C20_Prefiltered(block, k) ==
    LET tx == block.transactions[k]
    IN  /\ IsSome(tx.to)
        /\ \/ tx.input = "empty" /\ ~U256IsZero(tx.value)
           \/ tx.input = "transfer" /\ U256IsZero(tx.value)

\* its receipt is missing, could not be fetched, or has a status other than 1
C20_Gated(block, outcome, k) ==
    /\ C20_Prefiltered(block, k)
    /\ outcome[k] # "some" \/ block.receipts[k].status # Some(1)

\* C20: in the step that extracts a block, a transaction that passed the
\* pre-filter and whose receipt is missing, failed to be fetched or has a status
\* other than 1 gives no transfer and counts once in the skipped counter (with
\* the transactions the pre-filter rejected); a successful watched native
\* transfer of the same block is still produced; and the step keeps the block
\* row and ends the pass only for a database error of batch_save or a block
\* without hash, else it persists every transfer produced and goes on.
C20_ReceiptGating ==
    [][ (pc = "extract" /\ pc' # "extract") =>
          LET block == Unwrap(block_data)
              outcome == receipt_outcome'
              txs == 1..Len(block.transactions)
          IN  /\ \A k \in txs :
                    C20_Gated(block, outcome, k) =>
                        \A j \in 1..Len(processed_transfers') :
                            processed_transfers'[j].tx_hash # HexString(block.transactions[k].hash)
              /\ skipped_tx_count' =
                    Cardinality({k \in txs : C20_Gated(block, outcome, k)})
                    + Cardinality({k \in txs : ~C20_Prefiltered(block, k)})
              /\ \A k \in txs :
                    ( /\ C20_Prefiltered(block, k)
                      /\ ~C20_Gated(block, outcome, k)
                      /\ ~U256IsZero(block.transactions[k].value)
                      /\ \/ block.transactions[k].from \in FilterSnapshots[filter].addresses
                         \/ Unwrap(block.transactions[k].to) \in FilterSnapshots[filter].addresses )
                    => \E j \in 1..Len(processed_transfers') :
                          processed_transfers'[j].tx_hash = HexString(block.transactions[k].hash)
              /\ \E i \in 1..Len(eth_block') :
                    eth_block'[i].block_number = Unwrap(block.number)
              /\ IF pc' = "sleep"
                 THEN \/ result' = "err_database" /\ processed_transfers' # <<>>
                      \/ result' = "err_missing_hash" /\ block.hash = None
                 ELSE /\ pc' = "loop"
                      /\ \A j \in 1..Len(processed_transfers') :
                            \E i \in 1..Len(eth_transfer') :
                               /\ eth_transfer'[i].tx_hash = processed_transfers'[j].tx_hash
                               /\ eth_transfer'[i].log_index = processed_transfers'[j].log_index ]_vars

\* a committed block of two transactions: the receipt of the first was missing,
\* the transfer of the second is persisted, one transaction skipped
C20_Witness ==
    /\ pc = "loop"
    /\ IsSome(block_data)
    /\ Len(receipt_outcome) = 2
    /\ C20_Prefiltered(Unwrap(block_data), 1)
    /\ receipt_outcome[1] = "none"
    /\ receipt_outcome[2] = "some"
    /\ skipped_tx_count = 1
    /\ processed_transfers # <<>>
    /\ KeyPersisted(processed_transfers[1])

\* transaction k of the block given to the extractor went through the receipt
\* gate: its receipt was requested, came back, and has status 1
ReachedExtraction(k) ==
    LET block == Unwrap(parse_call).block
    IN  /\ \E j \in 1..Len(Unwrap(parse_result).requested) :
              Unwrap(parse_result).requested[j] = block.transactions[k].hash
        /\ parse_outcome[k] = "some"
        /\ block.receipts[k].status = Some(1)

\* the positions, in the result of the extractor, of the native transfers of
\* transaction tx
NativeOf(tx) ==
    {j \in 1..Len(Unwrap(parse_result).transfers) :
        /\ Unwrap(parse_result).transfers[j].tx_hash = HexString(tx.hash)
        /\ Unwrap(parse_result).transfers[j].contract_address = None}

\* C21: for a transaction with a successful receipt, the extractor emits one
\* native transfer (no contract address, the amount tx.value, log index 0, from
\* and to of the transaction) if value > 0 and from or to is a watched user,
\* and no native transfer otherwise; none when value = 0, whatever is watched.
C21_NativeEmission ==
    IsSome(parse_result) =>
        LET block == Unwrap(parse_call).block
            f == Unwrap(parse_call).filter_config
            transfers == Unwrap(parse_result).transfers
        IN  \A k \in 1..Len(block.transactions) :
                ReachedExtraction(k) =>
                    LET tx == block.transactions[k]
                        watched == tx.from \in f.addresses \/ Unwrap(tx.to) \in f.addresses
                    IN  /\ Cardinality(NativeOf(tx)) =
                              IF ~U256IsZero(tx.value) /\ watched THEN 1 ELSE 0
                        /\ U256IsZero(tx.value) => NativeOf(tx) = {}
                        /\ \A j \in NativeOf(tx) :
                              /\ transfers[j].amount = [int |-> tx.value, scale |-> 0]
                              /\ transfers[j].log_index = U256Zero
                              /\ transfers[j].from_address = HexString(tx.from)
                              /\ transfers[j].to_address = HexString(Unwrap(tx.to))

\* a native transfer of a watched user gave one transfer, and a token transfer
\* of the same user with value 0 gave a token transfer but no native one
C21_Witness ==
    /\ IsSome(parse_result)
    /\ Len(Unwrap(parse_call).block.transactions) = 2
    /\ ReachedExtraction(1) /\ ReachedExtraction(2)
    /\ U256IsZero(Unwrap(parse_call).block.transactions[2].value)
    /\ Unwrap(parse_call).block.transactions[2].from \in Unwrap(parse_call).filter_config.addresses
    /\ Len(Unwrap(parse_result).transfers) = 2
    /\ Unwrap(parse_result).transfers[1].contract_address = None
    /\ Unwrap(parse_result).transfers[2].contract_address # None

\* the five conditions on a log of the receipt
C22_Matches(log, f) ==
    /\ Len(log.topics) = 3
    /\ log.topics[1] = ERC20_TRANSFER_TOPIC
    /\ log.data.len = 32
    /\ log.address \in f.contracts
    /\ log.topics[2] \in f.addresses \/ log.topics[3] \in f.addresses

\* the positions of the token transfers of transaction tx in the result
Erc20Of(tx) ==
    {j \in 1..Len(Unwrap(parse_result).transfers) :
        /\ Unwrap(parse_result).transfers[j].tx_hash = HexString(tx.hash)
        /\ Unwrap(parse_result).transfers[j].contract_address # None}

\* C22: for a transaction with a successful receipt, the extractor emits one
\* token transfer for each log of the receipt that has exactly three topics,
\* the Transfer event hash as topic[0], 32 bytes of data, a watched emitting
\* contract and a watched user in topic[1] or topic[2] (with that contract,
\* those two addresses, the amount of the data and the index of the log), and
\* none for any other log: as many token transfers as matching logs.
C22_Erc20Emission ==
    IsSome(parse_result) =>
        LET block == Unwrap(parse_call).block
            f == Unwrap(parse_call).filter_config
            transfers == Unwrap(parse_result).transfers
        IN  \A k \in 1..Len(block.transactions) :
                ReachedExtraction(k) =>
                    LET tx == block.transactions[k]
                        logs == block.receipts[k].logs
                        matching == {l \in 1..Len(logs) : C22_Matches(logs[l], f)}
                    IN  /\ Cardinality(Erc20Of(tx)) = Cardinality(matching)
                        /\ \A l \in matching :
                              \E j \in Erc20Of(tx) :
                                 /\ transfers[j].contract_address = Some(HexString(logs[l].address))
                                 /\ transfers[j].from_address = HexString(logs[l].topics[2])
                                 /\ transfers[j].to_address = HexString(logs[l].topics[3])
                                 /\ transfers[j].amount = [int |-> logs[l].data.value, scale |-> 0]
                                 /\ transfers[j].log_index = Unwrap(logs[l].log_index)

\* a watched user called an unwatched contract, which emitted its own Transfer
\* event and one of the watched token: one token transfer, of the watched
\* token; and the transfer event of an unwatched token gave nothing
C22_Witness ==
    /\ IsSome(parse_result)
    /\ Len(Unwrap(parse_call).block.transactions) = 2
    /\ ReachedExtraction(1) /\ ReachedExtraction(2)
    /\ Unwrap(parse_call).block.transactions[1].to = Some("k2")
    /\ Len(Unwrap(parse_call).block.receipts[1].logs) = 1
    /\ Len(Unwrap(parse_call).block.receipts[2].logs) = 2
    /\ Unwrap(parse_call).block.receipts[2].logs[1].address = "k2"
    /\ Len(Unwrap(parse_result).transfers) = 1
    /\ Unwrap(parse_result).transfers[1].contract_address = Some(HexString("k1"))

\* C23: when a pass returns Ok the supervisor does not sleep before the next
\* pass, when it returns Err it sleeps the one retry interval, and the step
\* that ends the wait starts the next pass.
C23_SupervisorPacing ==
    /\ [][ (pc # "sleep" /\ pc' = "sleep") =>
              sleep_secs' = IF result' = "ok" THEN 0 ELSE ErrSleepSecs ]_vars
    /\ [][ (pc = "sleep" /\ pc' # "sleep") => pc' = "call" ]_vars

\* C24: after every pass that returns an error (the head or the last row
\* could not be read, a reorg was detected, a conversion failed, a write
\* failed, a block had no hash) the supervisor starts another pass, unless a
\* termination signal arrives first; and the loop is running in every state in
\* which no signal has been delivered.
C24_SupervisorSurvivesErrors ==
    /\ (pc = "sleep" /\ result # "ok") ~> (pc = "call" \/ sigint)
    /\ [](sigint \/ pc \in {"call", "loop", "process", "extract", "sleep"})

\* a pass returned the conversion error for the row a pass before it had
\* persisted without hash, when it returned the missing-hash error
C24_Witness ==
    /\ pc = "sleep"
    /\ result = "err_conversion"
    /\ eth_block # <<>>
    /\ LastRow(eth_block).block_hash = EmptyString
    /\ ~sigint

\* C25: once a termination signal has been delivered, the supervisor starts
\* no further pass and run() eventually returns Ok(()).
C25_GracefulShutdown ==
    /\ [](sigint => pc \notin {"call", "loop", "process", "extract", "sleep"})
    /\ sigint ~> (pc = "returned")

\* C26: the step of a pass in which the fetch of block next gives Ok(None), or
\* an error after the retries, ends the pass (it returns to the supervisor) and
\* commits nothing.
C26_PassEndsOnMissingBlock ==
    [][ (pc = "loop" /\ fetched' # fetched /\ fetched' \in {"ok_none", "err"}) =>
           /\ pc' = "sleep"
           /\ eth_block' = eth_block
           /\ eth_transfer' = eth_transfer ]_vars

\* the heights of the rows of eth_block, in insertion order
HeightsOf(rows) == [i \in 1..Len(rows) |-> rows[i].block_number]

\* C27: the step that starts a pass sets next to the largest persisted height
\* plus 1, or to init_height when eth_block is empty; and with an empty store
\* at the start, init_height = 1000, head = 1020 and delay = 12, safe is 1008,
\* the rows are committed at 1000, 1001, ... in this order, and a pass that
\* returns Ok has left exactly the heights 1000..1008 and next = 1009.
C27_CursorDerivation ==
    /\ [][ (pc = "call" /\ (pc' = "loop" \/ (pc' = "sleep" /\ result' = "ok"))) =>
              next_block' =
                 IF eth_block = <<>> THEN config.init_height
                 ELSE LET m == CHOOSE h \in {eth_block[i].block_number : i \in 1..Len(eth_block)} :
                                  \A i \in 1..Len(eth_block) : eth_block[i].block_number <= h
                      IN  m + 1 ]_vars
    /\ [](pc \in {"loop", "process", "extract"} => max_safe_block = 1008)
    /\ [](HeightsOf(eth_block) = [i \in 1..Len(eth_block) |-> 999 + i])
    /\ []((pc = "sleep" /\ result = "ok") =>
              /\ HeightsOf(eth_block) = [i \in 1..9 |-> 999 + i]
              /\ next_block = 1009)

\* the pass has committed 1008 after the eight heights before it and left its
\* loop with next = 1009 > safe = 1008
C27_Witness ==
    /\ pc = "sleep"
    /\ result = "ok"
    /\ fetched = "block"
    /\ current_net_block = 1020
    /\ max_safe_block = 1008
    /\ next_block = 1009
    /\ Unwrap(local_block).block_number = 1008
    /\ Len(eth_block) = 9
    /\ Len(eth_transfer) = 9

\* the largest block height among the rows of a non-empty block relation
LargestHeight(rows) ==
    CHOOSE h \in {rows[i].block_number : i \in 1..Len(rows)} :
        \A i \in 1..Len(rows) : rows[i].block_number <= h

\* the cursor and the safe height a pass derives from the store, the
\* configuration and the head of the network
DerivedNext == IF eth_block = <<>> THEN config.init_height ELSE LargestHeight(eth_block) + 1
DerivedSafe == IF config.delay > net_head THEN 0 ELSE net_head - config.delay

\* C28: when next > safe at the start of a pass (the head and the last row
\* having been read), the pass returns Ok at once: no block or receipt is
\* fetched, nothing is written, and eth_block and eth_transfer are unchanged.
C28_NothingToDo ==
    [][ ( /\ pc = "call"
          /\ pc' # "call"
          /\ DerivedNext > DerivedSafe
          /\ result' \notin {"err_head", "err_database", "err_conversion"} ) =>
            /\ pc' = "sleep"
            /\ result' = "ok"
            /\ pass_error' = None
            /\ fetched' = "nothing"
            /\ block_data' = None
            /\ receipt_outcome' = <<>>
            /\ processed_transfers' = <<>>
            /\ eth_block' = eth_block
            /\ eth_transfer' = eth_transfer ]_vars

\* a pass on a store that has caught up with the safe height, while the head
\* of the network is still ahead of the cursor by less than the delay
C28_Witness ==
    /\ pc = "sleep"
    /\ result = "ok"
    /\ fetched = "nothing"
    /\ eth_block # <<>>
    /\ config.delay > 0
    /\ next_block > max_safe_block
    /\ next_block <= current_net_block

\* C29: the error a pass returns on a parent-hash mismatch names the height
\* of the fetched block, the local hash of the previous block and the parent
\* hash reported by the network.
C29_ReorgErrorNamesThree ==
    (pc = "sleep" /\ result = "err_reorg") =>
        /\ IsSome(pass_error)
        /\ {"block", "local", "network"} \subseteq DOMAIN Unwrap(pass_error)
        /\ IsSome(local_block)
        /\ IsSome(block_data)
        /\ Unwrap(pass_error).block = next_block
        /\ Unwrap(pass_error).local = Unwrap(local_block).block_hash
        /\ Unwrap(pass_error).network = Unwrap(block_data).parent_hash

\* the persisted row of the largest height, as a pass reads it
PersistedTip == BlockQueryTryFrom(Unwrap(get_last_block_number(eth_block)))

\* The halt condition at height N = LargestHeight(eth_block) + 1: the row at
\* N - 1 carries a hash that is not the parent hash the network reports for
\* block N, and N is within the safe height.
Halted ==
    /\ eth_block # <<>>
    /\ PersistedTip.ok
    /\ PersistedTip.val.block_hash #
          <<LargestHeight(eth_block), fork[LargestHeight(eth_block)]>>
    /\ DerivedNext <= DerivedSafe

\* a pass that starts, or stands at the head of its loop with a height to
\* fetch, returns in this step
PassReturnsUnderHalt ==
    /\ pc' = "sleep"
    /\ pc = "call" \/ (pc = "loop" /\ next_block <= max_safe_block)
    /\ Halted
    /\ Halted'

\* C30 as stated: while the halt condition lasts, every pass returns the
\* reorg error.
C30_EveryPassReturnsReorg ==
    [][ PassReturnsUnderHalt => result' = "err_reorg" ]_vars

\* C30: while the halt condition lasts, a pass that starts either fails on
\* the read of the head or of the last row, or enters its loop at N; a pass
\* at N leaves its loop only by returning the reorg error for N; no pass
\* returns Ok; and no step ever deletes or modifies a row of eth_block or
\* eth_transfer.
C30_HaltOnReorgStable ==
    /\ [][ \/ db' = db
           \/ /\ Len(eth_block') >= Len(eth_block)
              /\ Len(eth_transfer') >= Len(eth_transfer)
              /\ \A i \in 1..Len(eth_block) : eth_block'[i] = eth_block[i]
              /\ \A i \in 1..Len(eth_transfer) : eth_transfer'[i] = eth_transfer[i] ]_vars
    /\ [][ (pc = "call" /\ pc' # "call" /\ Halted /\ Halted') =>
              \/ /\ pc' = "loop"
                 /\ next_block' = DerivedNext
                 /\ next_block' <= max_safe_block'
              \/ /\ pc' = "sleep"
                 /\ result' \in {"err_head", "err_database"} ]_vars
    /\ [][ (pc = "loop" /\ pc' # "loop" /\ next_block <= max_safe_block /\ Halted /\ Halted') =>
              /\ pc' = "sleep"
              /\ result' = "err_reorg"
              /\ pass_error' = Some(ChainReorgDetected(DerivedNext))
              /\ eth_block' = eth_block
              /\ eth_transfer' = eth_transfer ]_vars

\* a pass has returned the reorg error while blocks and transfers of the
\* abandoned fork are persisted
C30_Witness ==
    /\ Halted
    /\ pc = "sleep"
    /\ result = "err_reorg"
    /\ fetched = "block"
    /\ next_block = DerivedNext
    /\ Len(eth_block) >= 2
    /\ eth_transfer # <<>>

\* C31: a pass that fetched a block without a hash ends with an error, and
\* neither a row of eth_block nor a row of eth_transfer carries the height of
\* that block.
C31_MissingHashLeavesNothing ==
    (pc = "sleep" /\ IsSome(block_data) /\ ~IsSome(Unwrap(block_data).hash)) =>
        /\ result # "ok"
        /\ IsSome(pass_error)
        /\ \A i \in 1..Len(eth_block) : eth_block[i].block_number # next_block
        /\ \A i \in 1..Len(eth_transfer) : eth_transfer[i].block_number # next_block

\* a U256 that is at most i64::MAX, and a vector length that is at most i32::MAX
C32_InI64(v) == \A i \in 1..U256Digits : (i > 4 => v[i] = 0) /\ (i = 4 => v[i] < 32768)
C32_InI32(len) == len[4] = 0 /\ len[3] = 0 /\ len[2] < 32768
C32_OutOfRange(block) ==
    \/ ~C32_InI64(block.gas_used)
    \/ IsSome(block.base_fee_per_gas) /\ ~C32_InI64(Unwrap(block.base_fee_per_gas))
    \/ ~C32_InI64(block.timestamp)
    \/ ~C32_InI32(block.transactions_len)

\* C32: a fetched block whose gas used, base fee or timestamp is over i64::MAX,
\* or whose transaction count is over i32::MAX, ends the pass with the
\* conversion error in the step that processes the header, with eth_block and
\* eth_transfer as they were; a block within the limits is not rejected so.
C32_OverflowIsFatal ==
    /\ [][ (pc = "process" /\ pc' # "process" /\ C32_OutOfRange(Unwrap(block_data))) =>
              /\ pc' = "sleep"
              /\ result' = "err_conversion"
              /\ pass_error' = Some([kind |-> "err_conversion"])
              /\ sleep_secs' = ErrSleepSecs
              /\ eth_block' = eth_block
              /\ eth_transfer' = eth_transfer ]_vars
    /\ [][ (pc = "process" /\ pc' # "process" /\ ~C32_OutOfRange(Unwrap(block_data))) =>
              result' # "err_conversion" ]_vars
    /\ []((pc = "sleep" /\ IsSome(block_data) /\ C32_OutOfRange(Unwrap(block_data))) =>
              /\ \A i \in 1..Len(eth_block) : eth_block[i].block_number # next_block
              /\ \A i \in 1..Len(eth_transfer) : eth_transfer[i].block_number # next_block)

\* block 1 with 2^31 transactions was rejected after block 0 was committed
C32_Witness ==
    /\ pc = "sleep"
    /\ result = "err_conversion"
    /\ IsSome(block_data)
    /\ Unwrap(block_data).transactions_len = VecLenTwoPow31
    /\ next_block = 1
    /\ Len(eth_block) = 1
    /\ Len(eth_transfer) = 1

\* every attempt so far was made on the handle of one pick of its own, taken
\* in the step of the attempt
C33_OnePickPerAttempt ==
    /\ [](Len(picks) = Len(rpc_log))
    /\ [](\A j \in 1..Len(picks) : picks[j].caller = 0 /\ IsSome(picks[j].handle))
    /\ [][ rpc_log' # rpc_log =>
              /\ Len(rpc_log') = Len(rpc_log) + 1
              /\ Len(picks') = Len(picks) + 1
              /\ picks'[Len(picks')].i = index ]_vars

\* C33 as stated: one pick per attempt, and with a pool of more than one
\* endpoint no two consecutive attempts of the call use the same endpoint.
C33_FreshEndpointAnyCounter ==
    (pool.len > 1 /\ retry_pc # "idle") =>
        \A j \in 1..(Len(picks) - 1) : picks[j].handle # picks[j + 1].handle

\* C33: every attempt of a retried call performs exactly one pick in the step
\* of the attempt; with a pool of more than one endpoint, two consecutive
\* attempts use different endpoints unless the first of the two read the last
\* value of the counter (usize::MAX), and always when the pool size divides
\* 2^64.
C33_FreshEndpoint ==
    /\ C33_OnePickPerAttempt
    /\ []((pool.len > 1 /\ retry_pc # "idle") =>
             \A j \in 1..(Len(picks) - 1) :
                (picks[j].handle = picks[j + 1].handle) =>
                    /\ picks[j].i = UsizeMax
                    /\ pool.len = 3)

\* the third attempt of a call on a pool of three, after two failures
C33_Witness ==
    /\ pool.len = 3
    /\ pool.fresh
    /\ Len(rpc_log) = 3
    /\ Len(picks) = 3
    /\ picks[1].handle = Some(0)
    /\ picks[2].handle = Some(1)
    /\ picks[3].handle = Some(2)

\* C34: a fetched block that passed the parent-hash check, carries its hash
\* and was written to eth_block is committed whatever it yields: when the
\* extraction ends with no transfer (no transaction, or every transaction
\* filtered out or skipped), the step writes nothing to eth_transfer, the row
\* of the block stays in eth_block, the pass goes on without an error and the
\* cursor is one higher.
C34_EmptyBlockCommits ==
    /\ [][ (pc = "process" /\ pc' = "extract") =>
              \E i \in 1..Len(eth_block') : eth_block'[i].block_number = next_block ]_vars
    /\ [][ ( /\ pc = "extract"
             /\ pc' # "extract"
             /\ processed_transfers' = <<>>
             /\ IsSome(Unwrap(block_data).hash) ) =>
               /\ pc' = "loop"
               /\ result' = "none"
               /\ pass_error' = None
               /\ next_block' = next_block + 1
               /\ Unwrap(local_block').block_number = next_block
               /\ eth_transfer' = eth_transfer
               /\ eth_block' = eth_block
               /\ \E i \in 1..Len(eth_block) : eth_block[i].block_number = next_block ]_vars

\* block 0 with two transactions, both skipped, was committed with no transfer
C34_Witness ==
    /\ pc = "loop"
    /\ fetched = "block"
    /\ IsSome(block_data)
    /\ Len(Unwrap(block_data).transactions) = 2
    /\ skipped_tx_count = 2
    /\ processed_transfers = <<>>
    /\ eth_transfer = <<>>
    /\ Len(eth_block) = 1
    /\ next_block = eth_block[1].block_number + 1

\* C35: a call through the retry layer that reports failure has made at least
\* one RPC attempt, for every max_retries, 0 included.
C35_AttemptedBeforeFailure ==
    (retry_pc = "done" /\ IsSome(retry_result) /\ ~Unwrap(retry_result).ok) =>
        /\ Len(rpc_log) >= 1
        /\ Len(picks) >= 1
        /\ IsSome(last_error)

\* C36: the transfers the extractor emitted for the block in hand have
\* pairwise different (tx_hash, log_index), and once the block is committed
\* for the first time each of them is a row of eth_transfer.
C36_KeysDistinctInBlock ==
    /\ \A j, k \in 1..Len(processed_transfers) :
          j # k => \/ processed_transfers[j].tx_hash # processed_transfers[k].tx_hash
                   \/ processed_transfers[j].log_index # processed_transfers[k].log_index
    /\ (pc = "loop" /\ fetched = "block") =>
          \A k \in 1..Len(processed_transfers) :
             \E i \in 1..Len(eth_transfer) : eth_transfer[i] = processed_transfers[k]

\* a modify or create event waits in the channel of the watcher, or the
\* watcher is reloading for one
C37_ReloadPending ==
    \/ \E i \in 1..Len(events) : events[i] \in ReloadKinds
    \/ watcher_pc \in {"load_contracts", "load_addresses", "store"}

\* C37: whenever a modify or create event has occurred and both files are
\* readable, a new snapshot is eventually published (or a file has become
\* unreadable again), also after a reload that found a file unreadable; and
\* a reload that fails leaves the published snapshot in place.
C37_HotReloadLive ==
    /\ \A g \in 0..MaxEvents :
          (C37_ReloadPending /\ stores = g /\ contracts_file.readable /\ address_file.readable)
             ~> (stores > g \/ ~contracts_file.readable \/ ~address_file.readable)
    /\ [][ watcher_pc' = "panicked" => current' = current ]_vars

\* C38: for every height h at or above the starting cursor, once the head is
\* at least h + delay, block h is eventually committed: a row of height h is
\* in eth_block.
C38_Progress ==
    \A h \in Heights :
        (h >= config.init_height /\ net_head >= h + config.delay)
            ~> (\E i \in 1..Len(eth_block) : eth_block[i].block_number = h)

\* the three blocks of the chain were committed and the pass returned Ok
C38_Witness ==
    /\ config = [init_height |-> 0, delay |-> 0]
    /\ Len(eth_block) = 3
    /\ eth_block[3].block_number = 2
    /\ Len(eth_transfer) >= 1
    /\ pc = "sleep"
    /\ result = "ok"

\* the calls of execute whose transaction the node took
Broadcasted == chain.seen

AllCallsReturned == \A c \in Callers : calls[c].pc \in {"ok", "err"}

\* no two transactions the node took carry the same nonce
C39_NoTwoSame ==
    \A a, b \in Broadcasted : a # b => calls[a].nonce # calls[b].nonce

\* once every call has returned, every nonce between two nonces the node took
\* is the nonce of a transaction the node took
C39_NoHole ==
    AllCallsReturned =>
        \A a, b \in Broadcasted :
            \A n \in (calls[a].nonce + 1)..(calls[b].nonce - 1) :
                \E c \in Broadcasted : calls[c].nonce = n

\* C39: under any interleaving of concurrent calls of TxService::execute, no
\* two transactions that were broadcast carry the same nonce, and once every
\* call has returned the nonces of the broadcast transactions leave no hole
\* between them.
C39_NonceAllocationSafe == C39_NoTwoSame /\ C39_NoHole

\* C40: the step of NonceService::sync that compares and stores never lowers
\* current_nonce, whatever calls of acquire ran since sync loaded it; the
\* counter therefore stays above every nonce acquire has returned.
C40_SyncOnlyMovesForward ==
    [][nonce_sync.pc = "loaded" /\ nonce_sync'.pc = "idle"
           => ~U64Gt(current_nonce, current_nonce')]_vars
====
